---- MODULE Spec2Model ----
(***************************************************************************)
(* Model of the task tree store (TaskOrchestrator, src/src/lib.ts) and of  *)
(* the checkpoint store (CheckpointManager, src/src/evaluator.ts) with the *)
(* similarity scorer it uses (src/build/utils/similarity.js), and of the   *)
(* task_orchestrator tool of the server that exposes the task tree store   *)
(* to its callers (src/unnamed/part_005).                                  *)
(*                                                                         *)
(* JavaScript values are represented as follows.                           *)
(*   - a string is a TLA+ string; undefined and null in a string position  *)
(*     are the reserved strings Undefined and NullId, which no input set   *)
(*     contains;                                                           *)
(*   - an object is a function from its keys to values, so that a missing  *)
(*     key and a key holding undefined are different objects that read     *)
(*     alike (Get);                                                        *)
(*   - null in an object position is the record NullV;                     *)
(*   - the texts handed to the scorer (checkpoint name, checkpoint         *)
(*     description, query) are sequences of whitespace-separated tokens;   *)
(*     <<>> is the empty string and UndefText is undefined;                *)
(*   - a score is the exact fraction <<numerator, denominator>>;           *)
(*   - the text formatPlan returns is the sequence of the strings appended *)
(*     to it, each ending with a newline; a status glyph is written by its *)
(*     name; a message is the sequence of its literal and inserted parts.  *)
(* Objects are never shared between the live task map and a snapshot:      *)
(* buildTree and restoreTask allocate fresh objects and copy strings, so   *)
(* values model them without a heap.                                       *)
(***************************************************************************)
EXTENDS Integers, Sequences, FiniteSets

\* ------------------------------------------------------------------ bounds
MaxTasks == 3
MaxCheckpoints == 2
MaxSteps == 5
MaxMemory == 3

\* ------------------------------------------------------- JavaScript values
Undefined == "<undefined>"
NullId == "<null>"
NullV == [null |-> TRUE]
UndefText == <<Undefined>>

\* !x for a string-or-undefined-or-null value
Falsy(x) == x \in {Undefined, NullId, ""}

\* !t for a text
TextFalsy(t) == t = <<>> \/ t = UndefText

\* o.k : reading a missing key yields undefined
Get(o, k) == IF k \in DOMAIN o THEN o[k] ELSE Undefined

Digit == <<"0", "1", "2", "3", "4", "5", "6", "7", "8", "9">>

\* Number.prototype.toString for a non-negative integer
RECURSIVE toString(_)
toString(n) == IF n < 10 THEN Digit[n + 1]
               ELSE toString(n \div 10) \o Digit[(n % 10) + 1]

\* ------------------------------------------------------------ TaskOrchestrator
\* A store is the pair of fields of one TaskOrchestrator instance.
EmptyStore == [tasks |-> <<>>, rootTaskId |-> NullId]

MapHas(m, k) == k \in DOMAIN m
MapSet(m, k, v) == [x \in (DOMAIN m) \cup {k} |-> IF x = k THEN v ELSE m[x]]
MapSize(m) == Cardinality(DOMAIN m)

\* what a call threw: the message of the Error without the id it names, the
\* kind of a built-in error, ErrNone for a call that returned
ErrNone == "none"
ErrNoActivePlan == "No plan exists. Create a plan first."
ErrParentNotFound == "Parent task not found."
ErrTaskNotFound == "Task not found."
ErrInvalidState == "Invalid state to restore"
ErrTypeError == "TypeError"
ErrRangeError == "RangeError: Maximum call stack size exceeded"

\* createPlan without the clearing of the task map
createPlanKeep(st, goal) ==
    LET rootTask == [id |-> "1", description |-> goal, status |-> "pending",
                     parentId |-> Undefined, notes |-> Undefined,
                     result |-> Undefined, subtasks |-> <<>>]
    IN [st |-> [tasks |-> MapSet(st.tasks, rootTask.id, rootTask),
                rootTaskId |-> rootTask.id],
        err |-> ErrNone, id |-> "1"]

createPlan(st, goal) ==
    LET rootTask == [id |-> "1", description |-> goal, status |-> "pending",
                     parentId |-> Undefined, notes |-> Undefined,
                     result |-> Undefined, subtasks |-> <<>>]
    IN [st |-> [tasks |-> MapSet(<<>>, rootTask.id, rootTask),
                rootTaskId |-> rootTask.id],
        err |-> ErrNone, id |-> "1"]

\* addTask taking the task count itself, not the count plus one, as the new id
addTaskSameId(st, description, parentId, notes) ==
    IF Falsy(st.rootTaskId)
    THEN [st |-> st, err |-> ErrNoActivePlan, id |-> Undefined]
    ELSE
      LET newId == toString(MapSize(st.tasks))
          parentKey == IF ~Falsy(parentId) THEN parentId ELSE st.rootTaskId
      IN IF ~MapHas(st.tasks, parentKey)
         THEN [st |-> st, err |-> ErrParentNotFound, id |-> Undefined]
         ELSE
           LET parent == st.tasks[parentKey]
               newTask == [id |-> newId, description |-> description,
                           status |-> "pending", parentId |-> parent.id,
                           notes |-> notes, result |-> Undefined,
                           subtasks |-> <<>>]
               t1 == MapSet(st.tasks, newId, newTask)
               t2 == IF parentKey = newId THEN t1
                     ELSE [t1 EXCEPT ![parentKey].subtasks = Append(@, newId)]
           IN [st |-> [st EXCEPT !.tasks = t2], err |-> ErrNone, id |-> newId]

\* addTask attaching the task to the root when the given parent is not found
addTaskRootFallback(st, description, parentId, notes) ==
    IF Falsy(st.rootTaskId)
    THEN [st |-> st, err |-> ErrNoActivePlan, id |-> Undefined]
    ELSE
      LET newId == toString(MapSize(st.tasks) + 1)
          parentKey == IF ~Falsy(parentId) /\ MapHas(st.tasks, parentId)
                       THEN parentId ELSE st.rootTaskId
      IN IF ~MapHas(st.tasks, parentKey)
         THEN [st |-> st, err |-> ErrParentNotFound, id |-> Undefined]
         ELSE
           LET parent == st.tasks[parentKey]
               newTask == [id |-> newId, description |-> description,
                           status |-> "pending", parentId |-> parent.id,
                           notes |-> notes, result |-> Undefined,
                           subtasks |-> <<>>]
               t1 == MapSet(st.tasks, newId, newTask)
               t2 == IF parentKey = newId THEN t1
                     ELSE [t1 EXCEPT ![parentKey].subtasks = Append(@, newId)]
           IN [st |-> [st EXCEPT !.tasks = t2], err |-> ErrNone, id |-> newId]

addTask(st, description, parentId, notes) ==
    IF Falsy(st.rootTaskId)
    THEN [st |-> st, err |-> ErrNoActivePlan, id |-> Undefined]
    ELSE
      LET newId == toString(MapSize(st.tasks) + 1)
          parentKey == IF ~Falsy(parentId) THEN parentId ELSE st.rootTaskId
      IN IF ~MapHas(st.tasks, parentKey)
         THEN [st |-> st, err |-> ErrParentNotFound, id |-> Undefined]
         ELSE
           LET parent == st.tasks[parentKey]
               newTask == [id |-> newId, description |-> description,
                           status |-> "pending", parentId |-> parent.id,
                           notes |-> notes, result |-> Undefined,
                           subtasks |-> <<>>]
               t1 == MapSet(st.tasks, newId, newTask)
               \* parent is the object read before the set: when the new id
               \* replaces the parent's entry the push lands on the replaced
               \* object, which the map no longer holds
               t2 == IF parentKey = newId THEN t1
                     ELSE [t1 EXCEPT ![parentKey].subtasks = Append(@, newId)]
           IN [st |-> [st EXCEPT !.tasks = t2], err |-> ErrNone, id |-> newId]

\* updateTask writing every field that is given, the empty string included
updateTaskAnyGiven(st, id, updates) ==
    IF ~MapHas(st.tasks, id)
    THEN [st |-> st, err |-> ErrTaskNotFound, id |-> id]
    ELSE
      LET task == st.tasks[id]
          uStatus == Get(updates, "status")
          uDescription == Get(updates, "description")
          uNotes == Get(updates, "notes")
          uResult == Get(updates, "result")
          task2 == [task EXCEPT
              !.status = IF uStatus # Undefined THEN uStatus ELSE @,
              !.description = IF uDescription # Undefined THEN uDescription ELSE @,
              !.notes = IF uNotes # Undefined
                        THEN (IF ~Falsy(task.notes)
                              THEN task.notes \o "\n" \o uNotes
                              ELSE uNotes)
                        ELSE @,
              !.result = IF uResult # Undefined THEN uResult ELSE @]
      IN [st |-> [st EXCEPT !.tasks[id] = task2], err |-> ErrNone, id |-> id]

\* updateTask overwriting the notes as it overwrites the other fields
updateTaskReplaceNotes(st, id, updates) ==
    IF ~MapHas(st.tasks, id)
    THEN [st |-> st, err |-> ErrTaskNotFound, id |-> id]
    ELSE
      LET task == st.tasks[id]
          uStatus == Get(updates, "status")
          uDescription == Get(updates, "description")
          uNotes == Get(updates, "notes")
          uResult == Get(updates, "result")
          task2 == [task EXCEPT
              !.status = IF ~Falsy(uStatus) THEN uStatus ELSE @,
              !.description = IF ~Falsy(uDescription) THEN uDescription ELSE @,
              !.notes = IF ~Falsy(uNotes) THEN uNotes ELSE @,
              !.result = IF ~Falsy(uResult) THEN uResult ELSE @]
      IN [st |-> [st EXCEPT !.tasks[id] = task2], err |-> ErrNone, id |-> id]

\* updateTask adding the result to the result the task holds, as it does
\* with the notes
updateTaskAppendResult(st, id, updates) ==
    IF ~MapHas(st.tasks, id)
    THEN [st |-> st, err |-> ErrTaskNotFound, id |-> id]
    ELSE
      LET task == st.tasks[id]
          uStatus == Get(updates, "status")
          uDescription == Get(updates, "description")
          uNotes == Get(updates, "notes")
          uResult == Get(updates, "result")
          task2 == [task EXCEPT
              !.status = IF ~Falsy(uStatus) THEN uStatus ELSE @,
              !.description = IF ~Falsy(uDescription) THEN uDescription ELSE @,
              !.notes = IF ~Falsy(uNotes)
                        THEN (IF ~Falsy(task.notes)
                              THEN task.notes \o "\n" \o uNotes
                              ELSE uNotes)
                        ELSE @,
              !.result = IF ~Falsy(uResult)
                         THEN (IF ~Falsy(task.result)
                               THEN task.result \o "\n" \o uResult
                               ELSE uResult)
                         ELSE @]
      IN [st |-> [st EXCEPT !.tasks[id] = task2], err |-> ErrNone, id |-> id]

\* updates is an object with optional keys status, description, notes, result
updateTask(st, id, updates) ==
    IF ~MapHas(st.tasks, id)
    THEN [st |-> st, err |-> ErrTaskNotFound, id |-> id]
    ELSE
      LET task == st.tasks[id]
          uStatus == Get(updates, "status")
          uDescription == Get(updates, "description")
          uNotes == Get(updates, "notes")
          uResult == Get(updates, "result")
          task2 == [task EXCEPT
              !.status = IF ~Falsy(uStatus) THEN uStatus ELSE @,
              !.description = IF ~Falsy(uDescription) THEN uDescription ELSE @,
              !.notes = IF ~Falsy(uNotes)
                        THEN (IF ~Falsy(task.notes)
                              THEN task.notes \o "\n" \o uNotes
                              ELSE uNotes)
                        ELSE @,
              !.result = IF ~Falsy(uResult) THEN uResult ELSE @]
      IN [st |-> [st EXCEPT !.tasks[id] = task2], err |-> ErrNone, id |-> id]

\* The recursive walk of buildTree and printTask revisits a task, and so
\* never returns, exactly when a chain of subtasks links longer than the
\* number of tasks starts at the root.
RECURSIVE WalkDepth(_, _, _)
WalkDepth(tasks, taskId, fuel) ==
    IF fuel = 0 THEN 0
    ELSE LET subs == tasks[taskId].subtasks
             ds == {WalkDepth(tasks, subs[i], fuel - 1) : i \in DOMAIN subs}
         IN 1 + (IF ds = {} THEN 0 ELSE CHOOSE d \in ds : \A e \in ds : e <= d)

WalkDiverges(st) ==
    WalkDepth(st.tasks, st.rootTaskId, MapSize(st.tasks) + 1) > MapSize(st.tasks)

RECURSIVE buildTree(_, _)
buildTree(tasks, taskId) ==
    LET task == tasks[taskId]
    IN [id |-> task.id, description |-> task.description,
        status |-> task.status, notes |-> task.notes, result |-> task.result,
        subtasks |-> [i \in DOMAIN task.subtasks |->
                          buildTree(tasks, task.subtasks[i])]]

ErrorState == [error |-> "No plan active"]

\* err # ErrNone: the call does not return (stack exhaustion of the walk)
getPlanState(st) ==
    IF Falsy(st.rootTaskId) THEN [val |-> ErrorState, err |-> ErrNone]
    ELSE IF WalkDiverges(st) THEN [val |-> NullV, err |-> ErrRangeError]
    ELSE [val |-> buildTree(st.tasks, st.rootTaskId), err |-> ErrNone]

\* getStatusIcon: each glyph is written by its name
getStatusIcon(status) ==
    CASE status = "completed" -> "check"
      [] status = "in_progress" -> "cycle"
      [] status = "failed" -> "cross"
      [] status = "skipped" -> "skip"
      [] OTHER -> "circle"

\* ${v} inside a template literal
Interpolate(v) == IF v = Undefined THEN "undefined" ELSE v

\* String.prototype.repeat
RECURSIVE repeat(_, _)
repeat(s, n) == IF n = 0 THEN "" ELSE s \o repeat(s, n - 1)

\* printTask(taskId, depth) and the forEach over task.subtasks: the pieces
\* appended to output, in the order they are appended
RECURSIVE printTask(_, _, _)
RECURSIVE printSubtasks(_, _, _, _)
\* printTask writing the Notes piece before the Result piece
printTaskNotesFirst(tasks, taskId, depth) ==
    LET task == tasks[taskId]
        indent == repeat("  ", depth)
        icon == getStatusIcon(task.status)
    IN <<indent \o icon \o " [" \o Interpolate(task.id) \o "] "
           \o Interpolate(task.description)
           \o " (" \o Interpolate(task.status) \o ")\n">>
       \o (IF ~Falsy(task.notes)
           THEN <<indent \o "    Notes: " \o task.notes \o "\n">> ELSE <<>>)
       \o (IF ~Falsy(task.result)
           THEN <<indent \o "    Result: " \o task.result \o "\n">> ELSE <<>>)
       \o printSubtasks(tasks, task.subtasks, 1, depth + 1)

printTask(tasks, taskId, depth) ==
    LET task == tasks[taskId]
        indent == repeat("  ", depth)
        icon == getStatusIcon(task.status)
    IN <<indent \o icon \o " [" \o Interpolate(task.id) \o "] "
           \o Interpolate(task.description)
           \o " (" \o Interpolate(task.status) \o ")\n">>
       \o (IF ~Falsy(task.result)
           THEN <<indent \o "    Result: " \o task.result \o "\n">> ELSE <<>>)
       \o (IF ~Falsy(task.notes)
           THEN <<indent \o "    Notes: " \o task.notes \o "\n">> ELSE <<>>)
       \o printSubtasks(tasks, task.subtasks, 1, depth + 1)

printSubtasks(tasks, subs, i, depth) ==
    IF i > Len(subs) THEN <<>>
    ELSE printTask(tasks, subs[i], depth) \o printSubtasks(tasks, subs, i + 1, depth)

NoActivePlanText == <<"No active plan.">>

\* val: the returned string as the sequence of its appended pieces;
\* err # ErrNone: the call does not return (stack exhaustion of the walk)
formatPlan(st) ==
    IF Falsy(st.rootTaskId) THEN [val |-> NoActivePlanText, err |-> ErrNone]
    ELSE IF WalkDiverges(st) THEN [val |-> <<>>, err |-> ErrRangeError]
    ELSE [val |-> <<"Current Plan Status:\n">> \o printTask(st.tasks, st.rootTaskId, 0),
          err |-> ErrNone]

\* restoreTask(taskData, parentId) and the forEach over taskData.subtasks,
\* acting on the task map and root; a thrown TypeError keeps what was
\* written before it.
RECURSIVE restoreTask(_, _, _)
RECURSIVE restoreSubtasks(_, _, _, _)
\* restoreTask putting a child at the front of its parent's list (unshift for push)
restoreTaskFront(st, taskData, parentId) ==
    IF taskData = NullV
    THEN [st |-> st, err |-> ErrTypeError]
    ELSE
      LET task == [id |-> Get(taskData, "id"),
                   description |-> Get(taskData, "description"),
                   status |-> Get(taskData, "status"),
                   parentId |-> parentId,
                   notes |-> Get(taskData, "notes"),
                   result |-> Get(taskData, "result"),
                   subtasks |-> <<>>]
          t1 == MapSet(st.tasks, task.id, task)
          st1 == IF Falsy(parentId)
                 THEN [tasks |-> t1, rootTaskId |-> task.id]
                 ELSE IF MapHas(t1, parentId)
                      THEN [st EXCEPT !.tasks =
                              [t1 EXCEPT ![parentId].subtasks = <<task.id>> \o @]]
                      ELSE [st EXCEPT !.tasks = t1]
      IN IF "subtasks" \in DOMAIN taskData
         THEN restoreSubtasks(st1, taskData.subtasks, 1, task.id)
         ELSE [st |-> st1, err |-> ErrNone]

restoreTask(st, taskData, parentId) ==
    IF taskData = NullV
    THEN [st |-> st, err |-> ErrTypeError]
    ELSE
      LET task == [id |-> Get(taskData, "id"),
                   description |-> Get(taskData, "description"),
                   status |-> Get(taskData, "status"),
                   parentId |-> parentId,
                   notes |-> Get(taskData, "notes"),
                   result |-> Get(taskData, "result"),
                   subtasks |-> <<>>]
          t1 == MapSet(st.tasks, task.id, task)
          st1 == IF Falsy(parentId)
                 THEN [tasks |-> t1, rootTaskId |-> task.id]
                 ELSE IF MapHas(t1, parentId)
                      THEN [st EXCEPT !.tasks =
                              [t1 EXCEPT ![parentId].subtasks = Append(@, task.id)]]
                      ELSE [st EXCEPT !.tasks = t1]
      IN IF "subtasks" \in DOMAIN taskData
         THEN restoreSubtasks(st1, taskData.subtasks, 1, task.id)
         ELSE [st |-> st1, err |-> ErrNone]

restoreSubtasks(st, subs, i, parentId) ==
    IF i > Len(subs) THEN [st |-> st, err |-> ErrNone]
    ELSE LET r == restoreTask(st, subs[i], parentId)
         IN IF r.err # ErrNone THEN r
            ELSE restoreSubtasks(r.st, subs, i + 1, parentId)

\* restoreState without the clearing of the task map and root
\* `State restored successfully. Plan has ${this.tasks.size} task(s).`
restoredMessage(st) ==
    <<"State restored successfully. Plan has ", toString(MapSize(st.tasks)), " task(s).">>

\* what restoreState returns or throws once restoreTask(state) has run
restored(r) ==
    [st |-> r.st, err |-> r.err,
     message |-> IF r.err = ErrNone THEN restoredMessage(r.st) ELSE <<>>]

restoreStateNoClear(st, state) ==
    IF state = NullV \/ ~Falsy(Get(state, "error"))
    THEN [st |-> st, err |-> ErrInvalidState, message |-> <<>>]
    ELSE restored(restoreTask(st, state, Undefined))

\* message: the returned string, by its parts
restoreState(st, state) ==
    IF state = NullV \/ ~Falsy(Get(state, "error"))
    THEN [st |-> st, err |-> ErrInvalidState, message |-> <<>>]
    ELSE restored(restoreTask(EmptyStore, state, Undefined))

\* ---------------------------------------------------------- similarity.js
\* String.prototype.toLowerCase on the tokens the inputs use
toLowerCase(w) == CASE w = "Alpha" -> "alpha"
                    [] w = "Beta" -> "beta"
                    [] OTHER -> w

\* normalize: lower case, split into words, keep the words longer than 2
normalize(text) ==
    SelectSeq([i \in DOMAIN text |-> toLowerCase(text[i])], LAMBDA w : Len(w) > 2)

Range(s) == {s[i] : i \in DOMAIN s}

\* Array.prototype.indexOf, 0-based, for an element that occurs
indexOf(s, w) == (CHOOSE i \in DOMAIN s : s[i] = w /\ \A j \in 1..(i - 1) : s[j] # w) - 1

Abs(n) == IF n < 0 THEN -n ELSE n
Max(a, b) == IF a >= b THEN a ELSE b

RECURSIVE SumDiff(_, _, _)
SumDiff(common, words1, words2) ==
    IF common = {} THEN 0
    ELSE LET w == CHOOSE x \in common : TRUE
         IN Abs(indexOf(words1, w) - indexOf(words2, w))
              + SumDiff(common \ {w}, words1, words2)

Zero == <<0, 1>>
\* comparisons of fractions with positive denominators
Greater(a, b) == a[1] * b[2] > b[1] * a[2]

\* jaccard * 0.7 + orderScore * 0.3 as one fraction over 10 * |union| * |common| * maxLen
semanticSimilarity(text1, text2) ==
    IF TextFalsy(text1) \/ TextFalsy(text2) THEN Zero
    ELSE
      LET words1 == normalize(text1)
          words2 == normalize(text2)
      IN IF Len(words1) = 0 \/ Len(words2) = 0 THEN Zero
         ELSE
           LET intersection == Range(words1) \cap Range(words2)
               union == Range(words1) \cup Range(words2)
               nI == Cardinality(intersection)
               nU == Cardinality(union)
               maxLen == Max(Len(words1), Len(words2))
               sumDiff == SumDiff(intersection, words1, words2)
               \* orderScore = max(0, 1 - avgDiff / maxLen), avgDiff = sumDiff / nI
               orderNum == Max(0, nI * maxLen - sumDiff)
           IN IF nI = 0 THEN <<0, 10 * nU>>
              ELSE <<7 * nI * nI * maxLen + 3 * nU * orderNum,
                     10 * nU * nI * maxLen>>

\* Array.prototype.sort with the comparator (a, b) => b.score - a.score:
\* descending by score, elements of equal score keep their order
\* a sort that puts an element before the elements of equal score
RECURSIVE InsertSortedTiesFirst(_, _)
InsertSortedTiesFirst(sorted, e) ==
    IF sorted = <<>> THEN <<e>>
    ELSE IF ~Greater(Head(sorted).score, e.score) THEN <<e>> \o sorted
    ELSE <<Head(sorted)>> \o InsertSortedTiesFirst(Tail(sorted), e)

RECURSIVE InsertSorted(_, _)
InsertSorted(sorted, e) ==
    IF sorted = <<>> THEN <<e>>
    ELSE IF Greater(e.score, Head(sorted).score) THEN <<e>> \o sorted
    ELSE <<Head(sorted)>> \o InsertSorted(Tail(sorted), e)

RECURSIVE SortByScore(_)
SortByScore(s) ==
    IF s = <<>> THEN <<>>
    ELSE InsertSorted(SortByScore(SubSeq(s, 1, Len(s) - 1)), s[Len(s)])

Threshold01 == <<1, 10>>
Threshold03 == <<3, 10>>

\* findBestMatches sorting in ascending order (a.score - b.score)
findBestMatchesAscending(query, items, getText, limit) ==
    LET scored == [i \in DOMAIN items |->
                     [item |-> i, score |-> semanticSimilarity(query, getText[items[i]])]]
        sorted == SortByScore(scored)
        ascending == [i \in DOMAIN sorted |-> sorted[Len(sorted) + 1 - i]]
        sliced == SubSeq(ascending, 1,
                         IF limit < 0 THEN Max(Len(sorted) + limit, 0)
                         ELSE IF Len(sorted) < limit THEN Len(sorted) ELSE limit)
    IN SelectSeq(sliced, LAMBDA r : Greater(r.score, Threshold01))

\* items are given with their position so that a match names the item;
\* slice(0, limit) counts a negative limit from the end of the array
findBestMatches(query, items, getText, limit) ==
    LET scored == [i \in DOMAIN items |->
                     [item |-> i, score |-> semanticSimilarity(query, getText[items[i]])]]
        sorted == SortByScore(scored)
        sliced == SubSeq(sorted, 1,
                         IF limit < 0 THEN Max(Len(sorted) + limit, 0)
                         ELSE IF Len(sorted) < limit THEN Len(sorted) ELSE limit)
    IN SelectSeq(sliced, LAMBDA r : Greater(r.score, Threshold01))

\* ------------------------------------------------------- CheckpointManager
\* A manager is the pair of fields checkpoints, nextId; the orchestrator it
\* wraps is passed with it. The timestamp of a checkpoint (Date.now()) is read
\* by no operation and is left out.

\* JSON.parse(JSON.stringify(v)) of a plain tree: keys holding undefined are dropped
RECURSIVE JsonClone(_)
\* a copy that leaves out the result field
JsonCloneNoResult(v) ==
    [k \in {x \in DOMAIN v : x = "subtasks" \/ (x # "result" /\ v[x] # Undefined)} |->
        IF k = "subtasks"
        THEN [i \in DOMAIN v[k] |-> JsonClone(v[k][i])]
        ELSE v[k]]

JsonClone(v) ==
    [k \in {x \in DOMAIN v : x = "subtasks" \/ v[x] # Undefined} |->
        IF k = "subtasks"
        THEN [i \in DOMAIN v[k] |-> JsonClone(v[k][i])]
        ELSE v[k]]

\* createCheckpoint putting the checkpoint at the front of the list
createCheckpointFront(cm, st, name, description) ==
    LET id == "cp_" \o toString(cm.nextId)
        cm1 == [cm EXCEPT !.nextId = @ + 1]
        state == getPlanState(st)
    IN IF state.err # ErrNone
       THEN [cm |-> cm1, err |-> state.err, id |-> Undefined]
       ELSE LET checkpoint == [id |-> id, name |-> name,
                               description |-> description,
                               state |-> JsonClone(state.val)]
            IN [cm |-> [cm1 EXCEPT !.checkpoints = <<checkpoint>> \o @],
                err |-> ErrNone, id |-> id]

\* createCheckpoint reading the counter without incrementing it
createCheckpointSameId(cm, st, name, description) ==
    LET id == "cp_" \o toString(cm.nextId)
        state == getPlanState(st)
    IN IF state.err # ErrNone
       THEN [cm |-> cm, err |-> state.err, id |-> Undefined]
       ELSE LET checkpoint == [id |-> id, name |-> name,
                               description |-> description,
                               state |-> JsonClone(state.val)]
            IN [cm |-> [cm EXCEPT !.checkpoints = Append(@, checkpoint)],
                err |-> ErrNone, id |-> id]

createCheckpoint(cm, st, name, description) ==
    LET id == "cp_" \o toString(cm.nextId)
        cm1 == [cm EXCEPT !.nextId = @ + 1]
        state == getPlanState(st)
    IN IF state.err # ErrNone
       THEN [cm |-> cm1, err |-> state.err, id |-> Undefined]
       ELSE LET checkpoint == [id |-> id, name |-> name,
                               description |-> description,
                               state |-> JsonClone(state.val)]
            IN [cm |-> [cm1 EXCEPT !.checkpoints = Append(@, checkpoint)],
                err |-> ErrNone, id |-> id]

\* the listed fields of every checkpoint, in the order of the list
listCheckpoints(cm) ==
    [i \in DOMAIN cm.checkpoints |->
        [id |-> cm.checkpoints[i].id, name |-> cm.checkpoints[i].name,
         description |-> cm.checkpoints[i].description]]

\* the text of a checkpoint that a query is scored against
getText(cp) == IF ~TextFalsy(cp.description) THEN cp.name \o cp.description
               ELSE cp.name

\* the lookup falling back to the description when the id is not found
FindCheckpointFallback(cm, checkpointId, description) ==
    LET hits == {i \in DOMAIN cm.checkpoints : cm.checkpoints[i].id = checkpointId}
    IN IF ~Falsy(checkpointId) /\ hits # {}
       THEN CHOOSE i \in hits : \A j \in hits : i <= j
       ELSE IF ~TextFalsy(description)
       THEN LET matches == findBestMatches(description, cm.checkpoints,
                                         [c \in Range(cm.checkpoints) |-> getText(c)], 1)
            IN IF Len(matches) > 0 /\ Greater(matches[1].score, Threshold03)
               THEN matches[1].item ELSE 0
       ELSE 0

\* position in the list of the checkpoint restoreCheckpoint resolves to, 0 for none
FindCheckpoint(cm, checkpointId, description) ==
    IF ~Falsy(checkpointId)
    THEN LET hits == {i \in DOMAIN cm.checkpoints : cm.checkpoints[i].id = checkpointId}
         IN IF hits = {} THEN 0 ELSE CHOOSE i \in hits : \A j \in hits : i <= j
    ELSE IF ~TextFalsy(description)
    THEN LET matches == findBestMatches(description, cm.checkpoints,
                                         [c \in Range(cm.checkpoints) |-> getText(c)], 1)
         IN IF Len(matches) > 0 /\ Greater(matches[1].score, Threshold03)
            THEN matches[1].item ELSE 0
    ELSE 0

\* the body of the try block without the catch clause
TryRestoreNoCatch(st, checkpoint) ==
    LET cpState == checkpoint.state
    IN IF cpState = NullV \/ ~Falsy(Get(cpState, "error"))
       THEN [st |-> st, success |-> FALSE, threw |-> FALSE,
             message |-> <<"Checkpoint ">> \o checkpoint.name \o <<" has invalid state.">>]
       ELSE LET r == restoreState(st, cpState)
            IN IF r.err # ErrNone
               THEN [st |-> r.st, success |-> FALSE, threw |-> TRUE,
                     message |-> <<>>]
               ELSE [st |-> r.st, success |-> TRUE, threw |-> FALSE,
                     message |-> <<"Checkpoint ">> \o checkpoint.name
                                    \o <<" restored successfully.">>]

\* the try block handing every stored state to restoreState, without the
\* test of the stored state before the call
TryRestoreNoPrecheck(st, checkpoint) ==
    LET r == restoreState(st, checkpoint.state)
    IN IF r.err # ErrNone
       THEN [st |-> r.st, success |-> FALSE, threw |-> FALSE,
             message |-> <<"Error restoring checkpoint: ", r.err>>]
       ELSE [st |-> r.st, success |-> TRUE, threw |-> FALSE,
             message |-> <<"Checkpoint ">> \o checkpoint.name
                            \o <<" restored successfully.">>]

\* the try block of restoreCheckpoint with its catch clause
TryRestore(st, checkpoint) ==
    LET cpState == checkpoint.state
    IN IF cpState = NullV \/ ~Falsy(Get(cpState, "error"))
       THEN [st |-> st, success |-> FALSE, threw |-> FALSE,
             message |-> <<"Checkpoint ">> \o checkpoint.name \o <<" has invalid state.">>]
       ELSE LET r == restoreState(st, cpState)
            IN IF r.err # ErrNone
               THEN [st |-> r.st, success |-> FALSE, threw |-> FALSE,
                     message |-> <<"Error restoring checkpoint: ", r.err>>]
               ELSE [st |-> r.st, success |-> TRUE, threw |-> FALSE,
                     message |-> <<"Checkpoint ">> \o checkpoint.name
                                    \o <<" restored successfully.">>]

restoreCheckpoint(cm, st, checkpointId, description) ==
    LET cp == FindCheckpoint(cm, checkpointId, description)
    IN IF cp = 0
       THEN [st |-> st, success |-> FALSE, threw |-> FALSE, cp |-> 0,
             message |-> IF ~Falsy(checkpointId)
                         THEN <<"Checkpoint ", checkpointId, " not found.">>
                         ELSE <<"No checkpoint found matching: ">> \o description]
       ELSE LET r == TryRestore(st, cm.checkpoints[cp])
            IN [st |-> r.st, success |-> r.success, threw |-> r.threw,
                cp |-> cp, message |-> r.message]

\* Array.prototype.find by id: the first checkpoint carrying it, NullV for undefined
getCheckpoint(cm, checkpointId) ==
    LET hits == {i \in DOMAIN cm.checkpoints : cm.checkpoints[i].id = checkpointId}
    IN IF hits = {} THEN NullV
       ELSE cm.checkpoints[CHOOSE i \in hits : \A j \in hits : i <= j]

\* clear emptying the list and keeping the counter
clearListOnly(cm) == [checkpoints |-> <<>>, nextId |-> cm.nextId]

clear(cm) == [checkpoints |-> <<>>, nextId |-> 1]

\* -------------------------------------------------------- ProgressAnalyzer
\* countTasks of calculateStats: the tasks of the exported tree that the
\* switch counts under the given counter
RECURSIVE SumOver(_, _)
RECURSIVE countTasks(_, _)
countTasks(task, counter) ==
    LET own == CASE counter = "total" -> 1
                 [] counter \in {"completed", "in_progress", "failed"} ->
                        IF task.status = counter THEN 1 ELSE 0
                 [] OTHER ->
                        IF task.status \in {"completed", "in_progress", "failed"}
                        THEN 0 ELSE 1
    IN own + SumOver([i \in DOMAIN task.subtasks |->
                          countTasks(task.subtasks[i], counter)], 1)

SumOver(s, i) == IF i > Len(s) THEN 0 ELSE s[i] + SumOver(s, i + 1)

\* Math.round(completed / total * 100)
calculateStats(planState) ==
    LET total == countTasks(planState, "total")
        completed == countTasks(planState, "completed")
    IN [total |-> total, completed |-> completed,
        inProgress |-> countTasks(planState, "in_progress"),
        pending |-> countTasks(planState, "pending"),
        failed |-> countTasks(planState, "failed"),
        percent |-> IF total > 0
                    THEN (200 * completed + total) \div (2 * total) ELSE 0]

NoPlanAnalysis ==
    [summary |-> "No active plan to analyze.", insights |-> <<>>,
     risks |-> <<"No plan is currently active.">>]

\* analyzeProgress with the orchestrator dropping its plan when it is read
analyzeProgressDropping(st, planGoal) ==
    [st |-> EmptyStore, val |-> NoPlanAnalysis, err |-> ErrNone]

\* st: the orchestrator after the call; val: the analysis, its summary kept
\* as the numbers and the goal it is written from; err # ErrNone: the
\* getPlanState() inside did not return
analyzeProgress(st, planGoal) ==
    IF getPlanState(st).err # ErrNone
    THEN [st |-> st, val |-> NullV, err |-> getPlanState(st).err]
    ELSE IF "error" \in DOMAIN getPlanState(st).val
    THEN [st |-> st, val |-> NoPlanAnalysis, err |-> ErrNone]
    ELSE [st |-> st,
          val |-> [summary |-> [stats |-> calculateStats(getPlanState(st).val),
                                planGoal |-> planGoal]],
          err |-> ErrNone]

\* --------------------------------------------------------- ContextManager
\* A context is the pair of fields memory, nextId; the timestamp of an item
\* (Date.now()) is read by no operation and is left out.
NewContext == [memory |-> <<>>, nextId |-> 1]

remember(cx, what, details) ==
    LET id == "mem_" \o toString(cx.nextId)
    IN [cx |-> [memory |-> Append(cx.memory, [id |-> id, what |-> what,
                                               details |-> details]),
                nextId |-> cx.nextId + 1],
        remembered |-> TRUE, id |-> id]

\* getText of recall: `${item.what} ${item.details}`, or item.what alone
itemText(item) == IF ~TextFalsy(item.details) THEN item.what \o item.details
                  ELSE item.what

\* limit is given as a number; cx: the context after the call
recall(cx, query, limit) ==
    IF Len(cx.memory) = 0 THEN [cx |-> cx, results |-> <<>>]
    ELSE LET matches == findBestMatches(query, cx.memory,
                            [m \in Range(cx.memory) |-> itemText(m)], limit)
         IN [cx |-> cx,
             results |-> [i \in DOMAIN matches |->
                 [what |-> cx.memory[matches[i].item].what,
                  details |-> cx.memory[matches[i].item].details,
                  relevance |-> matches[i].score]]]

\* ------------------------------------------------------ DependencyResolver
\* A resolver is the pair of Maps tasks, dependencies, each as the sequence
\* of its entries in insertion order: tasks holds the tasks, dependencies
\* the entries [id, deps] with deps the Set of ids the task depends on.
\* Descriptions are strings in lower case without punctuation, which
\* toLowerCase and the replace of extractConcepts leave as they are.
NewResolver == [tasks |-> <<>>, dependencies |-> <<>>]

\* String.prototype.includes
StrIncludes(s, part) ==
    \E i \in 1..(Len(s) - Len(part) + 1) : SubSeq(s, i, i + Len(part) - 1) = part

\* text.split(/\s+/): the pieces between the runs of spaces
RECURSIVE split(_)
split(text) ==
    LET spaces == {i \in 1..Len(text) : SubSeq(text, i, i) = " "}
    IN IF spaces = {} THEN <<text>>
       ELSE LET first == CHOOSE i \in spaces : \A j \in spaces : i <= j
                after == CHOOSE i \in first..(Len(text) + 1) :
                            /\ i \notin spaces
                            /\ \A j \in first..(i - 1) : j \in spaces
            IN <<SubSeq(text, 1, first - 1)>> \o split(SubSeq(text, after, Len(text)))

\* the words longer than 3 that are no stop words
extractConcepts(text) ==
    SelectSeq(split(text),
              LAMBDA w : /\ Len(w) > 3
                         /\ w \notin {"that", "this", "with", "from", "have",
                                      "will", "should", "would"})

\* a concept of the other task occurs in the description with a dependency
\* keyword within 30 characters of its first occurrence, or one of the
\* explicit patterns matches and a concept occurs after its first match.
\* A pattern is given as the strings it matches, in the order the regular
\* expression tries them.
hasDependencyRelationship(taskDesc, otherDesc) ==
    LET keywords == {"after", "depends on", "requires", "needs", "uses", "calls",
                     "queries", "accesses", "depends", "based on", "using"}
        explicitPatterns ==
            {<<"that uses", "that queries", "that accesses", "that calls",
               "that depends on">>,
             <<"after setting up", "after creating", "after building">>,
             <<"requires the", "requires a", "requires an",
               "require the", "require a", "require an">>}
        otherConcepts == extractConcepts(otherDesc)
        IsAt(part, i) == SubSeq(taskDesc, i, i + Len(part) - 1) = part
        \* taskDesc.indexOf(part), for a part that occurs
        IndexOf(part) ==
            (CHOOSE i \in 1..Len(taskDesc) :
                IsAt(part, i) /\ \A j \in 1..(i - 1) : ~IsAt(part, j)) - 1
        context(concept) ==
            SubSeq(taskDesc, Max(0, IndexOf(concept) - 30) + 1,
                   IF IndexOf(concept) + Len(concept) + 30 > Len(taskDesc)
                   THEN Len(taskDesc) ELSE IndexOf(concept) + Len(concept) + 30)
        Matches(pattern) == \E k \in DOMAIN pattern : StrIncludes(taskDesc, pattern[k])
        \* 1-based position of the leftmost match and the string matched there
        MatchPos(pattern) ==
            CHOOSE i \in 1..Len(taskDesc) :
                /\ \E k \in DOMAIN pattern : IsAt(pattern[k], i)
                /\ \A j \in 1..(i - 1) : \A k \in DOMAIN pattern : ~IsAt(pattern[k], j)
        Match0(pattern) ==
            pattern[CHOOSE k \in DOMAIN pattern :
                        /\ IsAt(pattern[k], MatchPos(pattern))
                        /\ \A l \in 1..(k - 1) : ~IsAt(pattern[l], MatchPos(pattern))]
        afterMatch(pattern) ==
            SubSeq(taskDesc, IndexOf(Match0(pattern)) + Len(Match0(pattern)) + 1,
                   Len(taskDesc))
    IN \/ \E c \in DOMAIN otherConcepts :
            /\ Len(otherConcepts[c]) >= 4
            /\ StrIncludes(taskDesc, otherConcepts[c])
            /\ \E keyword \in keywords :
                  StrIncludes(context(otherConcepts[c]), keyword)
       \/ \E pattern \in explicitPatterns :
            /\ Matches(pattern)
            /\ \E c \in DOMAIN otherConcepts :
                  StrIncludes(afterMatch(pattern), otherConcepts[c])

\* the ids of the other tasks of the call the task depends on, in their order
findDependencies(task, allTasks) ==
    LET found == SelectSeq(allTasks,
                     LAMBDA otherTask :
                         /\ otherTask.id # task.id
                         /\ hasDependencyRelationship(task.description,
                                                      otherTask.description))
    IN [i \in DOMAIN found |-> found[i].id]

\* rs: the resolver after the call. The reasoning text of a dependency is a
\* function of the descriptions alone and is left out.
inferDependencies(rs, tasks) ==
    LET Keys(m) == {m[i].id : i \in DOMAIN m}
        \* Map.set: the entry of an existing key is replaced in place
        MapPut(m, e) ==
            IF e.id \in Keys(m)
            THEN [i \in DOMAIN m |-> IF m[i].id = e.id THEN e ELSE m[i]]
            ELSE Append(m, e)
        RECURSIVE store(_, _)
        store(r, i) ==
            IF i > Len(tasks) THEN r
            ELSE store([tasks |-> MapPut(r.tasks, tasks[i]),
                        dependencies |->
                            IF tasks[i].id \in Keys(r.dependencies)
                            THEN r.dependencies
                            ELSE Append(r.dependencies,
                                        [id |-> tasks[i].id, deps |-> {}])],
                       i + 1)
        RECURSIVE analyze(_, _)
        analyze(acc, i) ==
            IF i > Len(tasks) THEN acc
            ELSE LET dependsOn == findDependencies(tasks[i], tasks)
                 IN analyze(
                      IF Len(dependsOn) = 0
                      THEN [acc EXCEPT !.ready_tasks = Append(@, tasks[i].id)]
                      ELSE [rs |-> [acc.rs EXCEPT !.dependencies =
                                       MapPut(@, [id |-> tasks[i].id,
                                                  deps |-> Range(dependsOn)])],
                            dependencies |->
                                Append(acc.dependencies,
                                       [task_id |-> tasks[i].id,
                                        depends_on |-> dependsOn]),
                            ready_tasks |-> acc.ready_tasks],
                      i + 1)
    IN analyze([rs |-> store(rs, 1), dependencies |-> <<>>, ready_tasks |-> <<>>], 1)

\* the keys of tasks are pairwise distinct, so the second loop pushes a task
\* that the first loop has not pushed at most once
getNextTasks(rs, completedTasks) ==
    LET completedSet == Range(completedTasks)
        allDepsMet(e) == \A depId \in e.deps : depId \in completedSet
        met == SelectSeq(rs.dependencies, allDepsMet)
        unmet == SelectSeq(rs.dependencies, LAMBDA e : ~allDepsMet(e))
        ready == [i \in DOMAIN met |-> met[i].id]
        rest == SelectSeq(rs.tasks,
                    LAMBDA t :
                        /\ \A i \in DOMAIN rs.dependencies :
                              rs.dependencies[i].id = t.id
                                  => rs.dependencies[i].deps = {}
                        /\ t.id \notin Range(ready)
                        /\ t.id \notin completedSet)
    IN [rs |-> rs,
        ready |-> ready \o [i \in DOMAIN rest |-> rest[i].id],
        blocked |-> [i \in DOMAIN unmet |-> unmet[i].id]]

\* ------------------------------------------------- task_orchestrator tool
\* the strings the store operations return, by their parts
createPlanText(goal) == <<"Plan created with root task ID: 1. Goal: ", goal>>

addTaskText(st, id, description, parentId) ==
    <<"Added task ", id, ": \"", description, "\" to parent ",
      st.tasks[IF ~Falsy(parentId) THEN parentId ELSE st.rootTaskId].id>>

updateTaskText(st, id) == <<"Updated task ", id, ". New status: ", st.tasks[id].status>>

\* error.message of what a store operation threw
errorMessage(err, id) ==
    CASE err = ErrParentNotFound -> <<"Parent task ", id, " not found.">>
      [] err = ErrTaskNotFound -> <<"Task ", id, " not found.">>
      [] OTHER -> <<err>>

ToolActions == {"create_plan", "add_task", "update_task", "get_plan"}
TaskStatuses == {"pending", "in_progress", "completed", "failed", "skipped"}

\* ToolInputSchema.parse(args) does not throw
ToolInputSchemaAccepts(args) ==
    /\ Get(args, "action") \in ToolActions
    /\ Get(args, "status") \in TaskStatuses \cup {Undefined}

ErrZod == "ZodError"

\* the try block of the handler: thrown, message: what it threw;
\* resultText: the string the store returned; call, id: the store operation
\* that ran and the id it returned
runAction(st, args) ==
    LET thrown(message) ==
            [st |-> st, thrown |-> TRUE, message |-> message,
             resultText |-> <<>>, call |-> "none", id |-> Undefined]
        returned(r, text, call) ==
            [st |-> r.st, thrown |-> FALSE, message |-> <<>>,
             resultText |-> text, call |-> call, id |-> r.id]
    IN CASE args.action = "create_plan" ->
              IF Falsy(Get(args, "plan_goal"))
              THEN thrown(<<"plan_goal is required for create_plan">>)
              ELSE returned(createPlan(st, args.plan_goal),
                            createPlanText(args.plan_goal), "createPlan")
         [] args.action = "add_task" ->
              IF Falsy(Get(args, "task_description"))
              THEN thrown(<<"task_description is required for add_task">>)
              ELSE LET r == addTask(st, args.task_description,
                                    Get(args, "parent_task_id"), Get(args, "notes"))
                   IN IF r.err # ErrNone
                      THEN thrown(errorMessage(r.err, Get(args, "parent_task_id")))
                      ELSE returned(r, addTaskText(r.st, r.id, args.task_description,
                                                   Get(args, "parent_task_id")),
                                    "addTask")
         [] args.action = "update_task" ->
              IF Falsy(Get(args, "task_id"))
              THEN thrown(<<"task_id is required for update_task">>)
              ELSE LET r == updateTask(st, args.task_id,
                                [status |-> Get(args, "status"),
                                 description |-> Get(args, "task_description"),
                                 notes |-> Get(args, "notes"),
                                 result |-> Get(args, "result")])
                   IN IF r.err # ErrNone
                      THEN thrown(errorMessage(r.err, args.task_id))
                      ELSE returned(r, updateTaskText(r.st, r.id), "updateTask")
         [] OTHER ->
              [st |-> st, thrown |-> FALSE, message |-> <<>>,
               resultText |-> <<>>, call |-> "none", id |-> Undefined]

\* the handler with the plan formatted before the action has run
taskOrchestratorPlanBefore(st, args) ==
    LET r == runAction(st, args)
        plan == formatPlan(st)
    IN IF r.thrown
       THEN [st |-> r.st, err |-> ErrNone, isError |-> TRUE,
             text |-> <<"Error: ">> \o r.message, call |-> r.call, id |-> r.id]
       ELSE IF plan.err # ErrNone
       THEN [st |-> r.st, err |-> plan.err, isError |-> FALSE,
             text |-> <<>>, call |-> r.call, id |-> r.id]
       ELSE [st |-> r.st, err |-> ErrNone, isError |-> FALSE,
             text |-> IF r.resultText # <<>>
                      THEN r.resultText \o <<"\n\n">> \o plan.val
                      ELSE plan.val,
             call |-> r.call, id |-> r.id]

\* the handler registered as task_orchestrator: st: the store after it;
\* isError, text: the response; err # ErrNone: the handler threw
taskOrchestrator(st, args) ==
    LET r == runAction(st, args)
        plan == formatPlan(r.st)
    IN IF r.thrown
       THEN [st |-> r.st, err |-> ErrNone, isError |-> TRUE,
             text |-> <<"Error: ">> \o r.message, call |-> r.call, id |-> r.id]
       ELSE IF plan.err # ErrNone
       THEN [st |-> r.st, err |-> plan.err, isError |-> FALSE,
             text |-> <<>>, call |-> r.call, id |-> r.id]
       ELSE [st |-> r.st, err |-> ErrNone, isError |-> FALSE,
             text |-> IF r.resultText # <<>>
                      THEN r.resultText \o <<"\n\n">> \o plan.val
                      ELSE plan.val,
             call |-> r.call, id |-> r.id]

\* the tools/call handler for a request naming task_orchestrator
callTool(st, args) ==
    IF ~ToolInputSchemaAccepts(args)
    THEN [st |-> st, err |-> ErrZod, isError |-> FALSE, text |-> <<>>,
          call |-> "none", id |-> Undefined]
    ELSE taskOrchestrator(st, args)

\* ------------------------------------------------------------------- state
\* tasks, rootTaskId : the fields of the TaskOrchestrator instance
\* checkpoints, nextId : the fields of the CheckpointManager wrapping it
\* ret     : the last call, its arguments and what it returned or threw
\* orig    : for each listed checkpoint, what getPlanState() returned when
\*           it was created (history, read by no operation)
\* issued  : the ids returned by addTask since the last createPlan, in call
\*           order (history)
\* planEver: a createPlan or a successful restore has happened (history)
\* notesLog: for each task, the non-empty notes values it was given, in call
\*           order: by addTask, then by each updateTask; a restored task
\*           starts with the notes it was restored with (history)
\* cpIssued: the ids createCheckpoint returned since construction, in call
\*           order (history)
\* since   : the last successful restoreCheckpoint: the position it resolved
\*           to, the plan it produced, whether addTask or updateTask has
\*           changed the plan since, and whether it repeated a restore of the
\*           same checkpoint after such a change (history)
\* steps   : number of calls made so far
\* inflight: for each caller of the server, the task_orchestrator request it
\*           has sent and that the server has not handled yet
\* context : the ContextManager: its memory and its id counter
\* resolver: the DependencyResolver: its tasks and their recorded
\*           dependencies, each in the insertion order of the Map
VARIABLES tasks, rootTaskId, checkpoints, nextId, ret, orig, issued, planEver,
          notesLog, cpIssued, since, steps, inflight, context, resolver

vars == <<tasks, rootTaskId, checkpoints, nextId, ret, orig, issued, planEver,
          notesLog, cpIssued, since, steps, inflight, context, resolver>>

Store == [tasks |-> tasks, rootTaskId |-> rootTaskId]
Manager == [checkpoints |-> checkpoints, nextId |-> nextId]

\* ------------------------------------------------------------------ inputs
Goals == {"g"}
Descriptions == {"d"}
NotesIn == {Undefined, "a"}
\* ids of tasks that can exist and one that never does
TaskIds == {"1", "2", "3", "9"}
\* parentId of addTask: not given, the empty string, or an id
ParentIds == TaskIds \cup {Undefined, ""}

\* updates with absent and empty fields, with fields to overwrite, with notes
UpdateEmpty == [status |-> "", notes |-> ""]
UpdateDone == [status |-> "completed", description |-> "e", result |-> "r"]
UpdateNote == [notes |-> "b"]
Updates == {UpdateEmpty, UpdateDone, UpdateNote}

NameAlpha == <<"Alpha">>
NameBeta == <<"db", "gamma", "delta", "beta">>
CheckpointNames == {NameAlpha, NameBeta}
CheckpointDescriptions == {UndefText, <<"alpha", "stable">>}
QueryAlpha == <<"alpha">>
QueryBeta == <<"Beta">>
QueryNone == <<"omega">>
Queries == {UndefText, QueryAlpha, QueryBeta, QueryNone}
CheckpointIds == {Undefined, "", "cp_1", "cp_2"}
\* (checkpointId, description): either, both or neither given
RestoreArgs == {<<Undefined, q>> : q \in Queries}
                 \cup {<<id, UndefText>> : id \in CheckpointIds}
                 \cup {<<id, QueryAlpha>> : id \in CheckpointIds}

NoArgs == <<>>
\* op, args: the call; err: what it threw (ErrNone: it returned); id: the id
\* it returned; success, message: the fields of restoreCheckpoint's result;
\* cp: position of the checkpoint restoreCheckpoint resolved to (0: none);
\* val: a returned plan state
NoRet == [op |-> "new", args |-> NoArgs, err |-> ErrNone, id |-> Undefined,
          success |-> TRUE, cp |-> 0, message |-> <<>>, val |-> NullV]

\* the clients connected to the server
Callers == {"c1", "c2"}
NoRequest == <<>>

\* arguments of task_orchestrator requests: each action with what it needs,
\* with its required parameter empty or absent, with an id no task has, and
\* an action the schema does not know
ReqCreatePlan == [action |-> "create_plan", plan_goal |-> "g"]
ReqCreatePlanEmptyGoal == [action |-> "create_plan", plan_goal |-> ""]
ReqAddTask == [action |-> "add_task", task_description |-> "d"]
ReqAddTaskUnder2 == [action |-> "add_task", task_description |-> "d",
                     parent_task_id |-> "2", notes |-> "a"]
ReqAddTaskUnder9 == [action |-> "add_task", task_description |-> "d",
                     parent_task_id |-> "9"]
ReqAddTaskNoDescription == [action |-> "add_task", parent_task_id |-> "1"]
ReqUpdateTask == [action |-> "update_task", task_id |-> "2",
                  status |-> "completed", notes |-> "b", result |-> "r"]
ReqUpdateTask9 == [action |-> "update_task", task_id |-> "9", status |-> "failed"]
ReqUpdateTaskNoId == [action |-> "update_task", status |-> "completed"]
ReqGetPlan == [action |-> "get_plan"]
ReqUnknownAction == [action |-> "delete_task", task_id |-> "2"]
ToolRequests == {ReqCreatePlan, ReqCreatePlanEmptyGoal, ReqAddTask,
                 ReqAddTaskUnder2, ReqAddTaskUnder9, ReqAddTaskNoDescription,
                 ReqUpdateTask, ReqUpdateTask9, ReqUpdateTaskNoId, ReqGetPlan,
                 ReqUnknownAction}
\* the requests several callers send at the same time
SharedRequests == {ReqCreatePlan, ReqAddTask, ReqAddTaskUnder2, ReqUpdateTask,
                   ReqGetPlan}

Node(id, subtasks) ==
    [id |-> id, description |-> "d", status |-> "pending", subtasks |-> subtasks]

\* Snapshots handed to restoreState directly: null, the error object, trees as
\* getPlanState exports them, trees in which two nodes carry the same id, a
\* tree whose ids leave a gap and a tree with a null entry among the children.
SnapshotLeaf == Node("1", <<>>)
SnapshotTree == Node("1", <<Node("2", <<Node("3", <<>>)>>)>>)
SnapshotSelf == Node("1", <<Node("1", <<>>)>>)
SnapshotTwice == Node("1", <<Node("2", <<>>), Node("2", <<>>)>>)
SnapshotGap == Node("1", <<Node("3", <<>>)>>)
SnapshotNullEntry == Node("1", <<Node("2", <<>>), NullV>>)
Snapshots == {NullV, ErrorState, SnapshotLeaf, SnapshotTree, SnapshotSelf,
              SnapshotTwice, SnapshotGap, SnapshotNullEntry}

NoRestore == [cp |-> 0, first |-> EmptyStore, changed |-> FALSE, again |-> FALSE]

\* the notes a task holds, as the log of a task that was just written
NotesGiven(notes) == IF Falsy(notes) THEN <<>> ELSE <<notes>>

Init ==
    /\ tasks = <<>>
    /\ rootTaskId = NullId
    /\ checkpoints = <<>>
    /\ nextId = 1
    /\ ret = NoRet
    /\ orig = <<>>
    /\ issued = <<>>
    /\ planEver = FALSE
    /\ notesLog = <<>>
    /\ cpIssued = <<>>
    /\ since = NoRestore
    /\ steps = 0
    /\ inflight = [c \in Callers |-> NoRequest]
    /\ context = NewContext
    /\ resolver = NewResolver

SetStore(st) ==
    /\ tasks' = st.tasks
    /\ rootTaskId' = st.rootTaskId

\* the plan was replaced: every task starts with the notes it now holds
ResetNotesLog(st) ==
    notesLog' = [t \in DOMAIN st.tasks |-> NotesGiven(st.tasks[t].notes)]

SetManager(cm) ==
    /\ checkpoints' = cm.checkpoints
    /\ nextId' = cm.nextId

\* a direct call of a store operation: no request is sent or handled
Step ==
    /\ steps < MaxSteps
    /\ steps' = steps + 1
    /\ UNCHANGED <<inflight, context, resolver>>

\* plan_goal of analyze_progress is optional
PlanGoals == {Undefined, "ship"}

\* what and details of remember, query and limit of recall; limit 3 is also
\* what recall uses when no limit is given
Whats == {<<"alpha">>, <<"alpha", "beta">>, <<"omega">>}
Details == {UndefText, <<"beta">>}
RecallQueries == {QueryAlpha, QueryBeta, <<"alpha", "beta">>}
Limits == {-1, 0, 1, 2, 3}

\* tasks of infer_dependencies: two descriptions are given for task 2
\* and for task 3; completed_tasks of get_next_tasks, [] when left out
TaskLists ==
    LET Database == [id |-> "1", description |-> "set up database"]
        Api == [id |-> "2", description |-> "build api using database"]
        Docs == [id |-> "2", description |-> "write docs"]
        Report == [id |-> "3", description |-> "must require the database"]
        Deploy == [id |-> "3", description |-> "deploy"]
    IN {<<Database, Api>>, <<Api>>, <<Docs>>, <<Database, Api, Report>>,
        <<Deploy, Database>>, <<Api, Docs>>}
CompletedLists == {<<>>, <<"1">>, <<"2", "1">>, <<"4">>}

\* ----------------------------------------------------------------- actions
CreatePlan ==
    /\ Step
    /\ \E goal \in Goals :
         LET r == createPlan(Store, goal)
         IN /\ SetStore(r.st)
            /\ ResetNotesLog(r.st)
            /\ ret' = [NoRet EXCEPT !.op = "createPlan",
                          !.args = [goal |-> goal], !.id = r.id]
    /\ issued' = <<>>
    /\ planEver' = TRUE
    /\ since' = NoRestore
    /\ UNCHANGED <<checkpoints, nextId, orig, cpIssued>>

AddTask ==
    /\ Step
    /\ MapSize(tasks) < MaxTasks
    /\ \E description \in Descriptions, parentId \in ParentIds, notes \in NotesIn :
         LET r == addTask(Store, description, parentId, notes)
         IN /\ SetStore(r.st)
            /\ ret' = [NoRet EXCEPT !.op = "addTask",
                          !.args = [description |-> description,
                                    parentId |-> parentId, notes |-> notes],
                          !.err = r.err, !.id = r.id,
                          !.success = (r.err = ErrNone)]
            /\ issued' = IF r.err = ErrNone THEN Append(issued, r.id) ELSE issued
            /\ notesLog' = IF r.err = ErrNone
                           THEN MapSet(notesLog, r.id, NotesGiven(notes))
                           ELSE notesLog
            /\ since' = IF r.err = ErrNone /\ since.cp # 0
                        THEN [since EXCEPT !.changed = TRUE] ELSE since
    /\ UNCHANGED <<checkpoints, nextId, orig, planEver, cpIssued>>

UpdateTask ==
    /\ Step
    /\ \E id \in TaskIds, updates \in Updates :
         LET r == updateTask(Store, id, updates)
         IN /\ SetStore(r.st)
            /\ ret' = [NoRet EXCEPT !.op = "updateTask",
                          !.args = [id |-> id, updates |-> updates],
                          !.err = r.err, !.id = r.id,
                          !.success = (r.err = ErrNone)]
            /\ notesLog' = IF r.err = ErrNone
                           THEN [notesLog EXCEPT ![id] =
                                    @ \o NotesGiven(Get(updates, "notes"))]
                           ELSE notesLog
            /\ since' = IF r.err = ErrNone /\ since.cp # 0
                        THEN [since EXCEPT !.changed = TRUE] ELSE since
    /\ UNCHANGED <<checkpoints, nextId, orig, issued, planEver, cpIssued>>

CreateCheckpoint ==
    /\ Step
    /\ Len(checkpoints) < MaxCheckpoints
    /\ \E name \in CheckpointNames, description \in CheckpointDescriptions :
         LET r == createCheckpoint(Manager, Store, name, description)
         IN /\ SetManager(r.cm)
            /\ ret' = [NoRet EXCEPT !.op = "createCheckpoint",
                          !.args = [name |-> name, description |-> description],
                          !.err = r.err, !.id = r.id,
                          !.success = (r.err = ErrNone)]
            /\ orig' = IF r.err = ErrNone
                       THEN Append(orig, getPlanState(Store).val) ELSE orig
            /\ cpIssued' = IF r.err = ErrNone THEN Append(cpIssued, r.id)
                           ELSE cpIssued
    /\ UNCHANGED <<tasks, rootTaskId, issued, planEver, notesLog, since>>

\* what a restoreCheckpoint call that gave r leaves behind
RestoreCheckpointWith(r, checkpointId, description) ==
    /\ SetStore(r.st)
    /\ ret' = [NoRet EXCEPT !.op = "restoreCheckpoint",
                  !.args = [checkpointId |-> checkpointId,
                            description |-> description],
                  !.err = IF r.threw THEN ErrTypeError ELSE ErrNone,
                  !.success = r.success, !.cp = r.cp,
                  !.message = r.message]
    /\ planEver' = (planEver \/ r.success)
    /\ IF r.success THEN ResetNotesLog(r.st) ELSE notesLog' = notesLog
    /\ since' = IF ~r.success THEN since
                ELSE IF since.cp = r.cp
                THEN [since EXCEPT !.again = since.changed \/ @]
                ELSE [cp |-> r.cp, first |-> r.st,
                      changed |-> FALSE, again |-> FALSE]

RestoreCheckpoint ==
    /\ Step
    /\ \E a \in RestoreArgs :
         RestoreCheckpointWith(restoreCheckpoint(Manager, Store, a[1], a[2]),
                               a[1], a[2])
    /\ UNCHANGED <<checkpoints, nextId, orig, issued, cpIssued>>

Clear ==
    /\ Step
    /\ SetManager(clear(Manager))
    /\ ret' = [NoRet EXCEPT !.op = "clear"]
    /\ orig' = <<>>
    /\ since' = NoRestore
    /\ UNCHANGED <<tasks, rootTaskId, issued, planEver, notesLog, cpIssued>>

\* restoreState called directly on the store
RestoreState ==
    /\ Step
    /\ \E state \in Snapshots :
         LET r == restoreState(Store, state)
         IN /\ SetStore(r.st)
            /\ ret' = [NoRet EXCEPT !.op = "restoreState",
                          !.args = [state |-> state],
                          !.err = r.err, !.success = (r.err = ErrNone),
                          !.message = r.message]
            /\ planEver' = (planEver \/ r.err = ErrNone)
            /\ ResetNotesLog(r.st)
    /\ since' = NoRestore
    /\ UNCHANGED <<checkpoints, nextId, orig, issued, cpIssued>>

\* getPlanState() of the store handed to restoreState of a fresh store, whose
\* getPlanState() is returned
RoundTrip ==
    /\ Step
    /\ getPlanState(Store).err = ErrNone
    /\ LET state == getPlanState(Store).val
           r == restoreState(EmptyStore, state)
       IN ret' = [NoRet EXCEPT !.op = "roundTrip",
                     !.args = [state |-> state],
                     !.err = r.err, !.success = (r.err = ErrNone),
                     !.val = IF r.err = ErrNone THEN getPlanState(r.st).val
                             ELSE NullV]
    /\ UNCHANGED <<tasks, rootTaskId, checkpoints, nextId, orig, issued, planEver,
                   notesLog, cpIssued, since>>

ListCheckpoints ==
    /\ Step
    /\ ret' = [NoRet EXCEPT !.op = "listCheckpoints",
                  !.val = listCheckpoints(Manager)]
    /\ UNCHANGED <<tasks, rootTaskId, checkpoints, nextId, orig, issued, planEver,
                   notesLog, cpIssued, since>>

GetCheckpoint ==
    /\ Step
    /\ \E checkpointId \in CheckpointIds \ {Undefined} :
         ret' = [NoRet EXCEPT !.op = "getCheckpoint",
                    !.args = [checkpointId |-> checkpointId],
                    !.val = getCheckpoint(Manager, checkpointId)]
    /\ UNCHANGED <<tasks, rootTaskId, checkpoints, nextId, orig, issued, planEver,
                   notesLog, cpIssued, since>>

GetPlanState ==
    /\ Step
    /\ ret' = [NoRet EXCEPT !.op = "getPlanState",
                  !.err = getPlanState(Store).err,
                  !.val = getPlanState(Store).val]
    /\ UNCHANGED <<tasks, rootTaskId, checkpoints, nextId, orig, issued, planEver,
                   notesLog, cpIssued, since>>

FormatPlan ==
    /\ Step
    /\ ret' = [NoRet EXCEPT !.op = "formatPlan",
                  !.err = formatPlan(Store).err,
                  !.val = formatPlan(Store).val]
    /\ UNCHANGED <<tasks, rootTaskId, checkpoints, nextId, orig, issued, planEver,
                   notesLog, cpIssued, since>>

AnalyzeProgress ==
    /\ Step
    /\ \E planGoal \in PlanGoals :
         LET r == analyzeProgress(Store, planGoal)
         IN /\ SetStore(r.st)
            /\ ret' = [NoRet EXCEPT !.op = "analyzeProgress",
                          !.args = [planGoal |-> planGoal],
                          !.err = r.err, !.val = r.val]
    /\ UNCHANGED <<checkpoints, nextId, orig, issued, planEver, notesLog,
                   cpIssued, since>>

\* a call on the ContextManager
Remember ==
    /\ steps < MaxSteps
    /\ steps' = steps + 1
    /\ Len(context.memory) < MaxMemory
    /\ \E what \in Whats, details \in Details :
         LET r == remember(context, what, details)
         IN /\ context' = r.cx
            /\ ret' = [NoRet EXCEPT !.op = "remember",
                          !.args = [what |-> what, details |-> details],
                          !.id = r.id, !.success = r.remembered]
    /\ UNCHANGED <<tasks, rootTaskId, checkpoints, nextId, orig, issued, planEver,
                   notesLog, cpIssued, since, inflight, resolver>>

Recall ==
    /\ steps < MaxSteps
    /\ steps' = steps + 1
    /\ \E query \in RecallQueries, limit \in Limits :
         LET r == recall(context, query, limit)
         IN /\ context' = r.cx
            /\ ret' = [NoRet EXCEPT !.op = "recall",
                          !.args = [query |-> query, limit |-> limit],
                          !.val = r.results]
    /\ UNCHANGED <<tasks, rootTaskId, checkpoints, nextId, orig, issued, planEver,
                   notesLog, cpIssued, since, inflight, resolver>>

\* ContextManager.clear()
ForgetAll ==
    /\ steps < MaxSteps
    /\ steps' = steps + 1
    /\ context' = NewContext
    /\ ret' = [NoRet EXCEPT !.op = "forgetAll"]
    /\ UNCHANGED <<tasks, rootTaskId, checkpoints, nextId, orig, issued, planEver,
                   notesLog, cpIssued, since, inflight, resolver>>

\* a call on the DependencyResolver
InferDependencies ==
    /\ steps < MaxSteps
    /\ steps' = steps + 1
    /\ \E taskList \in TaskLists :
         LET r == inferDependencies(resolver, taskList)
         IN /\ resolver' = r.rs
            /\ ret' = [NoRet EXCEPT !.op = "inferDependencies",
                          !.args = [tasks |-> taskList],
                          !.val = [dependencies |-> r.dependencies,
                                   ready_tasks |-> r.ready_tasks]]
    /\ UNCHANGED <<tasks, rootTaskId, checkpoints, nextId, orig, issued, planEver,
                   notesLog, cpIssued, since, inflight, context>>

GetNextTasks ==
    /\ steps < MaxSteps
    /\ steps' = steps + 1
    /\ \E completedTasks \in CompletedLists :
         LET r == getNextTasks(resolver, completedTasks)
         IN /\ resolver' = r.rs
            /\ ret' = [NoRet EXCEPT !.op = "getNextTasks",
                          !.args = [completedTasks |-> completedTasks],
                          !.val = [ready |-> r.ready, blocked |-> r.blocked]]
    /\ UNCHANGED <<tasks, rootTaskId, checkpoints, nextId, orig, issued, planEver,
                   notesLog, cpIssued, since, inflight, context>>

\* createPlan on a store that never held a plan
CreateFirstPlan ==
    /\ ~planEver
    /\ CreatePlan

\* what a handled request leaves in the history variables
HandleWith(r, c, args) ==
    /\ SetStore(r.st)
    /\ ret' = [NoRet EXCEPT !.op = "task_orchestrator",
                  !.args = [caller |-> c, arguments |-> args],
                  !.err = r.err, !.id = r.id,
                  !.success = (r.err = ErrNone /\ ~r.isError),
                  !.message = r.text]
    /\ issued' = CASE r.call = "createPlan" -> <<>>
                   [] r.call = "addTask" -> Append(issued, r.id)
                   [] OTHER -> issued
    /\ planEver' = (planEver \/ r.call = "createPlan")
    /\ CASE r.call = "createPlan" -> ResetNotesLog(r.st)
         [] r.call = "addTask" ->
              notesLog' = MapSet(notesLog, r.id, NotesGiven(Get(args, "notes")))
         [] r.call = "updateTask" ->
              notesLog' = [notesLog EXCEPT ![r.id] =
                              @ \o NotesGiven(Get(args, "notes"))]
         [] OTHER -> notesLog' = notesLog
    /\ since' = CASE r.call = "createPlan" -> NoRestore
                  [] r.call \in {"addTask", "updateTask"} /\ since.cp # 0 ->
                       [since EXCEPT !.changed = TRUE]
                  [] OTHER -> since

\* the server handles the request of one caller: the tools/call handler and
\* the tool handler it awaits have no suspension point before they return
Handle ==
    /\ steps < MaxSteps
    /\ steps' = steps + 1
    /\ \E c \in Callers :
         /\ inflight[c] # NoRequest
         /\ MapSize(tasks) < MaxTasks \/ inflight[c].action # "add_task"
         /\ HandleWith(callTool(Store, inflight[c]), c, inflight[c])
         /\ inflight' = [inflight EXCEPT ![c] = NoRequest]
    /\ UNCHANGED <<checkpoints, nextId, orig, cpIssued, context, resolver>>

\* one caller sends a task_orchestrator request
SendAlone ==
    /\ steps < MaxSteps
    /\ \E args \in ToolRequests :
         /\ inflight["c1"] = NoRequest
         /\ inflight' = [inflight EXCEPT !["c1"] = args]
    /\ UNCHANGED <<tasks, rootTaskId, checkpoints, nextId, ret, orig, issued,
                   planEver, notesLog, cpIssued, since, steps, context, resolver>>

\* any caller sends a task_orchestrator request while others are pending
SendShared ==
    /\ steps < MaxSteps
    /\ \E c \in Callers, args \in SharedRequests :
         /\ inflight[c] = NoRequest
         /\ inflight' = [inflight EXCEPT ![c] = args]
    /\ UNCHANGED <<tasks, rootTaskId, checkpoints, nextId, ret, orig, issued,
                   planEver, notesLog, cpIssued, since, steps, context, resolver>>

Next ==
    \/ CreatePlan
    \/ AddTask
    \/ UpdateTask
    \/ CreateCheckpoint
    \/ RestoreCheckpoint
    \/ Clear

NextAdd ==
    \/ CreateFirstPlan
    \/ AddTask

NextRoundTrip ==
    \/ Next
    \/ RoundTrip

NextList ==
    \/ Next
    \/ ListCheckpoints
    \/ GetCheckpoint

NextRestore ==
    \/ CreatePlan
    \/ AddTask
    \/ UpdateTask
    \/ RestoreState

NextTool ==
    \/ SendAlone
    \/ Handle

NextShared ==
    \/ SendShared
    \/ Handle

NextRead ==
    \/ CreatePlan
    \/ RestoreState
    \/ CreateCheckpoint
    \/ GetPlanState
    \/ FormatPlan
    \/ ListCheckpoints
    \/ GetCheckpoint
    \/ AnalyzeProgress

NextContext ==
    \/ Remember
    \/ Recall
    \/ ForgetAll

NextResolver ==
    \/ InferDependencies
    \/ GetNextTasks

\* the operations of the two stores as the tools call them
Spec == Init /\ [][Next]_vars

\* one createPlan followed by addTask calls only
SpecAdd == Init /\ [][NextAdd]_vars

\* Spec with the export of the plan replayed into a fresh store
SpecRoundTrip == Init /\ [][NextRoundTrip]_vars

\* the operations of the task store alone, restoreState called directly on
\* any snapshot among them
SpecRestore == Init /\ [][NextRestore]_vars

\* Spec with the two reading operations of the checkpoint list
SpecList == Init /\ [][NextList]_vars

\* one caller of the task_orchestrator tool, sending any request
SpecTool == Init /\ [][NextTool]_vars

\* two callers of the task_orchestrator tool whose requests the server
\* handles in any order
SpecShared == Init /\ [][NextShared]_vars

\* plans made by createPlan and restoreState, checkpoints being created, and
\* the operations that only read
SpecRead == Init /\ [][NextRead]_vars

\* the operations of the ContextManager
SpecContext == Init /\ [][NextContext]_vars

\* the operations of the DependencyResolver
SpecResolver == Init /\ [][NextResolver]_vars

\* ================================================================== claims
Count(seq, x) == Cardinality({i \in DOMAIN seq : seq[i] = x})

\* following parentId from t reaches a task without parent within fuel links
RECURSIVE ReachesRoot(_, _)
ReachesRoot(t, fuel) ==
    IF tasks[t].parentId = Undefined THEN TRUE
    ELSE IF fuel = 0 \/ tasks[t].parentId \notin DOMAIN tasks THEN FALSE
    ELSE ReachesRoot(tasks[t].parentId, fuel - 1)

\* the ids of the nodes of an exported tree
RECURSIVE TreeIds(_)
TreeIds(node) ==
    {node.id} \cup UNION {TreeIds(node.subtasks[i]) : i \in DOMAIN node.subtasks}

\* two plan states read alike: a key holding undefined and a missing key are
\* not told apart
RECURSIVE SameTree(_, _)
SameTree(a, b) ==
    IF "error" \in DOMAIN a \/ "error" \in DOMAIN b THEN a = b
    ELSE /\ \A k \in {"id", "description", "status", "notes", "result"} :
              Get(a, k) = Get(b, k)
         /\ Len(a.subtasks) = Len(b.subtasks)
         /\ \A i \in DOMAIN a.subtasks : SameTree(a.subtasks[i], b.subtasks[i])

IsCall(r, op) == r.op = op

\* C1: after one createPlan and any addTask calls, the ids addTask returned
\* are pairwise distinct, none is the root id "1", and every id in a subtasks
\* list is a key of the task map.
C1_UniqueIds ==
    /\ \A i, j \in DOMAIN issued : i # j => issued[i] # issued[j]
    /\ \A i \in DOMAIN issued : issued[i] # "1"
    /\ \A t \in DOMAIN tasks : \A k \in DOMAIN tasks[t].subtasks :
          tasks[t].subtasks[k] \in DOMAIN tasks

\* two tasks were added, the second under the first, with one failed call
\* among the four calls made
C1_Witness ==
    /\ Len(issued) = 2 /\ steps = 4
    /\ IsCall(ret, "addTask") /\ ret.err = ErrNone
    /\ "2" \in DOMAIN tasks /\ tasks["2"].subtasks = <<"3">>

\* C2: whenever a plan is active the task graph is a rooted tree: the root is
\* the one task without parentId, every parentId and subtasks entry is a key
\* of the map, T is listed in P.subtasks exactly once if T.parentId = P.id and
\* not at all otherwise, and no task is its own ancestor.
C2_TreeShape ==
    ~Falsy(rootTaskId) =>
      /\ rootTaskId \in DOMAIN tasks
      /\ {t \in DOMAIN tasks : tasks[t].parentId = Undefined} = {rootTaskId}
      /\ \A t \in DOMAIN tasks :
            /\ tasks[t].id = t
            /\ tasks[t].parentId # Undefined => tasks[t].parentId \in DOMAIN tasks
            /\ \A k \in DOMAIN tasks[t].subtasks : tasks[t].subtasks[k] \in DOMAIN tasks
            /\ ReachesRoot(t, MapSize(tasks))
      /\ \A p, t \in DOMAIN tasks :
            Count(tasks[p].subtasks, t) = IF tasks[t].parentId = p THEN 1 ELSE 0

\* C3: the state stored for a checkpoint stays what getPlanState() returned
\* when the checkpoint was created, whatever is done to the live plan later.
C3_Isolation ==
    /\ Len(orig) = Len(checkpoints)
    /\ \A i \in DOMAIN checkpoints :
          SameTree(getCheckpoint(Manager, checkpoints[i].id).state, orig[i])

\* a checkpoint of an active plan exists and the live plan has since been
\* changed by createPlan, addTask or updateTask
C3_Witness ==
    /\ ret.op \in {"createPlan", "addTask", "updateTask"} /\ ret.err = ErrNone
    /\ \E i \in DOMAIN checkpoints :
          /\ orig[i] # ErrorState
          /\ ~SameTree(getPlanState(Store).val, orig[i])

\* C4: restoreCheckpoint by the id of a checkpoint created while a plan was
\* active succeeds, and afterwards getPlanState() is what it was when the
\* checkpoint was created and the task map holds that tree's tasks only.
C4_RestoreReturnsToCheckpoint ==
    \A i \in DOMAIN checkpoints :
       (/\ IsCall(ret, "restoreCheckpoint")
        /\ ret.args.checkpointId = checkpoints[i].id
        /\ orig[i] # ErrorState)
       => /\ ret.success
          /\ getPlanState(Store) = [val |-> orig[i], err |-> ErrNone]
          /\ DOMAIN tasks = TreeIds(orig[i])

\* a checkpoint was restored by id and a task added after it is gone
C4_Witness ==
    /\ IsCall(ret, "restoreCheckpoint") /\ ret.success
    /\ ~Falsy(ret.args.checkpointId)
    /\ Len(issued) > 0 /\ issued[Len(issued)] \notin DOMAIN tasks

\* C5: for an active plan, restoreState(getPlanState()) on a fresh store
\* succeeds and that store's getPlanState() is identical to the original
\* export.
C5_RoundTrip ==
    (IsCall(ret, "roundTrip") /\ ~Falsy(rootTaskId)) =>
       /\ ret.err = ErrNone
       /\ ret.val = ret.args.state
       /\ ret.val = getPlanState(Store).val

\* the round trip was made on a plan with two siblings, a result and notes
C5_Witness ==
    /\ IsCall(ret, "roundTrip")
    /\ MapSize(tasks) = 3 /\ tasks["1"].subtasks = <<"2", "3">>
    /\ \E t \in DOMAIN tasks : tasks[t].result = "r"
    /\ \E t \in DOMAIN tasks : tasks[t].notes = "a"

Failed(r) == r.err # ErrNone \/ ~r.success

\* C6: whenever addTask, updateTask, restoreState or restoreCheckpoint fails,
\* the task map, the root id and the checkpoint list are what they were
\* before the call.
C6_FailureLeavesState ==
    [][(/\ steps' # steps
        /\ ret'.op \in {"addTask", "updateTask", "restoreState", "restoreCheckpoint"}
        /\ Failed(ret'))
       => /\ tasks' = tasks
          /\ rootTaskId' = rootTaskId
          /\ checkpoints' = checkpoints]_vars

\* a checkpoint list whose one checkpoint stores the given state
ListStoring(state) ==
    [checkpoints |-> <<[id |-> "cp_1", name |-> NameAlpha,
                        description |-> UndefText, state |-> state]>>,
     nextId |-> 2]

\* C7: restoreCheckpoint always returns a {success, message} value and never
\* throws, whichever of checkpointId and description are given; where
\* restoreState throws on the stored state the result is success:false.
C7_Total ==
    /\ IsCall(ret, "restoreCheckpoint") =>
          ret.err = ErrNone /\ ret.success \in BOOLEAN /\ ret.message # <<>>
    /\ \A state \in Snapshots :
          LET r == restoreCheckpoint(ListStoring(state), Store, "cp_1", UndefText)
          IN /\ ~r.threw
             /\ restoreState(Store, state).err # ErrNone => ~r.success

\* restoreCheckpoint was called with neither argument on a non-empty list
C7_Witness ==
    /\ IsCall(ret, "restoreCheckpoint")
    /\ Falsy(ret.args.checkpointId) /\ TextFalsy(ret.args.description)
    /\ Len(checkpoints) > 0 /\ ~Falsy(rootTaskId)
    /\ ~ret.success

\* String.prototype.includes on a message given by its parts
Includes(message, part) == part = "" \/ part \in Range(message)

NoCheckpointHasId(id) == \A i \in DOMAIN checkpoints : checkpoints[i].id # id

\* C8 as stated: restoreCheckpoint with a checkpointId that matches no stored
\* checkpoint returns success:false with a message containing that id, also
\* when a description is supplied that would match.
C8_AnyIdMiss ==
    (/\ IsCall(ret, "restoreCheckpoint")
     /\ ret.args.checkpointId # Undefined
     /\ NoCheckpointHasId(ret.args.checkpointId))
    => /\ ~ret.success
       /\ Includes(ret.message, ret.args.checkpointId)

\* C8 amended: restoreCheckpoint with a non-empty checkpointId that matches no
\* stored checkpoint returns success:false with a message containing that id
\* and leaves the live plan unchanged, also when a description is supplied
\* that would match.
C8_NoFallback ==
    [][(/\ steps' # steps
        /\ IsCall(ret', "restoreCheckpoint")
        /\ ~Falsy(ret'.args.checkpointId)
        /\ NoCheckpointHasId(ret'.args.checkpointId))
       => /\ ~ret'.success
          /\ Includes(ret'.message, ret'.args.checkpointId)
          /\ tasks' = tasks /\ rootTaskId' = rootTaskId]_vars

\* an unknown id was given together with a description that matches a
\* checkpoint with score above 0.3, and the call failed
C8_Witness ==
    /\ IsCall(ret, "restoreCheckpoint")
    /\ ~Falsy(ret.args.checkpointId)
    /\ NoCheckpointHasId(ret.args.checkpointId)
    /\ \E i \in DOMAIN checkpoints :
          Greater(semanticSimilarity(ret.args.description, getText(checkpoints[i])),
                  Threshold03)
    /\ ~ret.success

ScoreOf(query, i) == semanticSimilarity(query, getText(checkpoints[i]))

\* C9: restoreCheckpoint with a description only resolves to a checkpoint
\* exactly when some score exceeds 0.3, and then to one no other checkpoint
\* outscores; only that checkpoint is restored; when no score exceeds 0.3 the
\* call fails; a failed call leaves the live plan unchanged.
C9_BestMatch ==
    [][(/\ steps' # steps
        /\ IsCall(ret', "restoreCheckpoint")
        /\ ret'.args.checkpointId = Undefined
        /\ ~TextFalsy(ret'.args.description))
       => /\ (ret'.cp # 0) <=>
                (\E i \in DOMAIN checkpoints :
                    Greater(ScoreOf(ret'.args.description, i), Threshold03))
          /\ ret'.cp # 0 =>
                \A j \in DOMAIN checkpoints :
                   ~Greater(ScoreOf(ret'.args.description, j),
                            ScoreOf(ret'.args.description, ret'.cp))
          /\ ret'.success =>
                /\ ret'.cp # 0
                /\ [tasks |-> tasks', rootTaskId |-> rootTaskId']
                     = restoreState(Store, checkpoints[ret'.cp].state).st
          /\ ret'.cp = 0 => ~ret'.success
          /\ ~ret'.success => tasks' = tasks /\ rootTaskId' = rootTaskId]_vars

\* the second of two checkpoints was restored by description while the first
\* scored above 0 and below it
C9_Witness ==
    /\ IsCall(ret, "restoreCheckpoint") /\ ret.success
    /\ ret.args.checkpointId = Undefined
    /\ Len(checkpoints) = 2 /\ ret.cp = 2
    /\ Greater(ScoreOf(ret.args.description, 1), Zero)
    /\ Greater(ScoreOf(ret.args.description, 2), ScoreOf(ret.args.description, 1))

\* C10: addTask on a store in which no createPlan and no successful restore
\* has happened fails with the no-active-plan error, updateTask with an id
\* that is not a key of the task map fails with the task-not-found error, and
\* neither creates or changes a task.
C10_BoundaryErrors ==
    [][steps' # steps =>
         /\ (IsCall(ret', "addTask") /\ ~planEver) =>
               /\ ret'.err = ErrNoActivePlan
               /\ tasks' = tasks /\ rootTaskId' = rootTaskId
         /\ (IsCall(ret', "updateTask") /\ ret'.args.id \notin DOMAIN tasks) =>
               /\ ret'.err = ErrTaskNotFound
               /\ tasks' = tasks /\ rootTaskId' = rootTaskId]_vars

\* a call was made (the step is not a stuttering step)
Called == steps' # steps

StoreAfter == [tasks |-> tasks', rootTaskId |-> rootTaskId']

\* C11 as stated: on an active plan, addTask with any given parentId that is
\* not a key of the task map fails with the parent-not-found error and
\* inserts nothing.
C11_AnyMissingParent ==
    [][(/\ Called
        /\ IsCall(ret', "addTask")
        /\ ~Falsy(rootTaskId)
        /\ ret'.args.parentId # Undefined
        /\ ret'.args.parentId \notin DOMAIN tasks)
       => /\ ret'.err = ErrParentNotFound
          /\ tasks' = tasks /\ rootTaskId' = rootTaskId]_vars

\* C11 amended: on an active plan, addTask with a non-empty parentId that is
\* not a key of the task map fails with the parent-not-found error, inserts
\* no task, appends nothing to any subtasks list and consumes no id: every
\* addTask call made next returns what it would have returned without the
\* failed call.
C11_MissingParent ==
    [][(/\ Called
        /\ IsCall(ret', "addTask")
        /\ ~Falsy(rootTaskId)
        /\ ~Falsy(ret'.args.parentId)
        /\ ret'.args.parentId \notin DOMAIN tasks)
       => /\ ret'.err = ErrParentNotFound
          /\ tasks' = tasks /\ rootTaskId' = rootTaskId
          /\ \A d \in Descriptions, p \in ParentIds, n \in NotesIn :
                addTask(StoreAfter, d, p, n) = addTask(Store, d, p, n)]_vars

\* addTask failed for a missing parent on a plan that already has a subtask
C11_Witness ==
    /\ IsCall(ret, "addTask") /\ ret.err = ErrParentNotFound
    /\ ret.args.parentId = "9"
    /\ MapSize(tasks) = 2 /\ tasks["1"].subtasks = <<"2">>

\* the parent addTask resolves to: the given parentId, the root when none is given
ResolvedParent(parentId) == IF Falsy(parentId) THEN rootTaskId ELSE parentId

\* C12: a successful addTask on a plan holding n tasks creates exactly one
\* new task, with id the decimal string of n+1, status pending, empty
\* subtasks and parentId the resolved parent, and appends the new id as the
\* last element of that parent's subtasks; no other subtasks list changes.
C12_AddCreatesOne ==
    [][(Called /\ IsCall(ret', "addTask") /\ ret'.err = ErrNone)
       => LET newId == ret'.id
              parent == ResolvedParent(ret'.args.parentId)
          IN /\ newId = toString(MapSize(tasks) + 1)
             /\ newId \notin DOMAIN tasks
             /\ DOMAIN tasks' = DOMAIN tasks \cup {newId}
             /\ tasks'[newId].id = newId
             /\ tasks'[newId].status = "pending"
             /\ tasks'[newId].subtasks = <<>>
             /\ tasks'[newId].parentId = parent
             /\ tasks'[newId].description = ret'.args.description
             /\ tasks'[parent].subtasks = Append(tasks[parent].subtasks, newId)
             /\ \A t \in DOMAIN tasks \ {parent} :
                   tasks'[t].subtasks = tasks[t].subtasks
             /\ rootTaskId' = rootTaskId]_vars

\* C13: createPlan always succeeds and leaves the task map holding exactly
\* one task: id "1", the goal as description, status pending, empty
\* subtasks, no parentId, no notes, no result; it is the root.
C13_CreatePlanResets ==
    IsCall(ret, "createPlan") =>
       /\ ret.err = ErrNone
       /\ rootTaskId = "1"
       /\ DOMAIN tasks = {"1"}
       /\ tasks["1"] = [id |-> "1", description |-> ret.args.goal,
                        status |-> "pending", subtasks |-> <<>>,
                        parentId |-> Undefined, notes |-> Undefined,
                        result |-> Undefined]

\* createPlan was called after a plan with subtasks had been built and
\* checkpointed
C13_Witness ==
    /\ IsCall(ret, "createPlan")
    /\ \E i \in DOMAIN orig :
          orig[i] # ErrorState /\ Len(orig[i].subtasks) > 0

\* the values of a log joined with newlines
RECURSIVE JoinNotes(_)
JoinNotes(log) ==
    IF Len(log) = 1 THEN log[1]
    ELSE JoinNotes(SubSeq(log, 1, Len(log) - 1)) \o "\n" \o log[Len(log)]

\* notes as text: a task without notes has the empty text
NotesText(notes) == IF notes = Undefined THEN "" ELSE notes

IsPrefix(p, s) == Len(p) <= Len(s) /\ SubSeq(s, 1, Len(p)) = p

\* every task's notes are the newline-joined values of its log
NotesJoined ==
    /\ DOMAIN notesLog = DOMAIN tasks
    /\ \A t \in DOMAIN tasks :
          IF notesLog[t] = <<>> THEN Falsy(tasks[t].notes)
          ELSE tasks[t].notes = JoinNotes(notesLog[t])

\* C14: notes are append-only: a task's notes are the newline-joined
\* concatenation, in call order, of its initial notes and every non-empty
\* notes value updateTask was given for it, and the notes before an update
\* are a prefix of the notes after it.
C14_NotesAppendOnly ==
    [][/\ NotesJoined'
       /\ (Called /\ IsCall(ret', "updateTask") /\ ret'.err = ErrNone)
            => IsPrefix(NotesText(tasks[ret'.args.id].notes),
                        NotesText(tasks'[ret'.args.id].notes))]_vars

\* a task added with notes "a" was given notes "b" twice
C14_Witness ==
    /\ IsCall(ret, "updateTask") /\ ret.err = ErrNone
    /\ notesLog[ret.args.id] = <<"a", "b", "b">>
    /\ tasks[ret.args.id].notes = "a\nb\nb"

UpdateFields == {"status", "description", "notes", "result"}

\* C15: in updateTask every field of the update that is absent or an empty
\* string leaves the task's field as it was; an update whose four fields are
\* all absent or empty changes nothing in the store and still succeeds when
\* the id exists.
C15_FalsyFieldsUntouched ==
    [][(Called /\ IsCall(ret', "updateTask") /\ ret'.args.id \in DOMAIN tasks)
       => LET id == ret'.args.id
              updates == ret'.args.updates
          IN /\ ret'.err = ErrNone
             /\ id \in DOMAIN tasks'
             /\ \A f \in UpdateFields :
                   Falsy(Get(updates, f)) => tasks'[id][f] = tasks[id][f]
             /\ (\A f \in UpdateFields : Falsy(Get(updates, f)))
                   => tasks' = tasks /\ rootTaskId' = rootTaskId]_vars

\* an update with an empty status and empty notes was applied to a completed
\* task that has notes and a result
C15_Witness ==
    /\ IsCall(ret, "updateTask") /\ ret.err = ErrNone
    /\ ret.args.updates = UpdateEmpty
    /\ tasks[ret.args.id].status = "completed"
    /\ tasks[ret.args.id].result = "r"
    /\ tasks[ret.args.id].notes = "a"

ManagerAfter == [checkpoints |-> checkpoints', nextId |-> nextId']

\* C17: clear() empties the checkpoint list and resets the counter to 1:
\* right after it listCheckpoints() is empty, getCheckpoint and
\* restoreCheckpoint find no checkpoint, by any id listed before or by any
\* description, the next createCheckpoint returns cp_1, and the live plan is
\* unchanged.
C17_ClearResets ==
    [][(Called /\ IsCall(ret', "clear"))
       => /\ checkpoints' = <<>> /\ nextId' = 1
          /\ listCheckpoints(ManagerAfter) = <<>>
          /\ \A id \in CheckpointIds \cup {checkpoints[i].id : i \in DOMAIN checkpoints} :
                getCheckpoint(ManagerAfter, id) = NullV
          /\ \A a \in RestoreArgs :
                LET r == restoreCheckpoint(ManagerAfter, StoreAfter, a[1], a[2])
                IN r.cp = 0 /\ ~r.success /\ r.st = Store
          /\ \A n \in CheckpointNames, d \in CheckpointDescriptions :
                createCheckpoint(ManagerAfter, StoreAfter, n, d).id = "cp_1"
          /\ tasks' = tasks /\ rootTaskId' = rootTaskId]_vars

\* clear() was called on a list of two checkpoints while a plan with a
\* subtask was active
C17_Witness ==
    /\ IsCall(ret, "clear")
    /\ cpIssued = <<"cp_1", "cp_2">>
    /\ MapSize(tasks) = 2

\* C18: createCheckpoint succeeds when no plan is active: it consumes the
\* next cp_<n> id and appends a checkpoint whose stored state is the error
\* object. Whenever restoreCheckpoint resolves, by id or by description, to
\* a checkpoint whose stored state carries an error field, it returns
\* success:false with the invalid-state message of the test made before
\* restoreState is called, and the live plan is unchanged.
C18_ErrorStateCheckpoint ==
    [][/\ (Called /\ IsCall(ret', "createCheckpoint") /\ Falsy(rootTaskId))
          => /\ ret'.err = ErrNone
             /\ ret'.id = "cp_" \o toString(nextId)
             /\ nextId' = nextId + 1
             /\ checkpoints' =
                   Append(checkpoints,
                          [id |-> ret'.id, name |-> ret'.args.name,
                           description |-> ret'.args.description,
                           state |-> ErrorState])
             /\ tasks' = tasks /\ rootTaskId' = rootTaskId
       /\ (/\ Called /\ IsCall(ret', "restoreCheckpoint")
           /\ ret'.cp # 0
           /\ ~Falsy(Get(checkpoints[ret'.cp].state, "error")))
          => /\ ~ret'.success
             /\ ret'.err = ErrNone
             /\ ret'.message = <<"Checkpoint ">> \o checkpoints[ret'.cp].name
                                  \o <<" has invalid state.">>
             /\ tasks' = tasks /\ rootTaskId' = rootTaskId]_vars

\* a checkpoint taken with no plan active was resolved by description while
\* a plan was active, and the restore failed
C18_Witness ==
    /\ IsCall(ret, "restoreCheckpoint") /\ ~ret.success
    /\ ret.args.checkpointId = Undefined
    /\ ret.cp # 0 /\ checkpoints[ret.cp].state = ErrorState
    /\ ~Falsy(rootTaskId)

\* C19: the checkpoint list is append-only and in creation order: each
\* createCheckpoint adds one entry at the end, with the given name and
\* description and the returned id; listCheckpoints, getCheckpoint,
\* restoreCheckpoint, createPlan, addTask and updateTask leave the list as it
\* was; listCheckpoints returns the entries in list order; after a restore of
\* a checkpoint every later checkpoint of a plan can still be restored.
C19_ListAppendOnly ==
    [][Called =>
        /\ IsCall(ret', "createCheckpoint") =>
              /\ Len(checkpoints') = Len(checkpoints) + 1
              /\ SubSeq(checkpoints', 1, Len(checkpoints)) = checkpoints
              /\ checkpoints'[Len(checkpoints')].id = ret'.id
              /\ checkpoints'[Len(checkpoints')].name = ret'.args.name
              /\ checkpoints'[Len(checkpoints')].description = ret'.args.description
        /\ ret'.op \in {"listCheckpoints", "getCheckpoint", "restoreCheckpoint",
                        "createPlan", "addTask", "updateTask"} =>
              checkpoints' = checkpoints /\ nextId' = nextId
        /\ IsCall(ret', "listCheckpoints") =>
              /\ Len(ret'.val) = Len(checkpoints)
              /\ \A i \in DOMAIN checkpoints :
                    /\ ret'.val[i].id = checkpoints[i].id
                    /\ ret'.val[i].name = checkpoints[i].name
                    /\ ret'.val[i].description = checkpoints[i].description
        /\ (IsCall(ret', "restoreCheckpoint") /\ ret'.cp # 0) =>
              \A j \in DOMAIN checkpoints :
                 (j > ret'.cp /\ orig[j] # ErrorState) =>
                    LET r == restoreCheckpoint(ManagerAfter, StoreAfter,
                                               checkpoints[j].id, UndefText)
                    IN r.success /\ r.cp = j]_vars

\* the first of two checkpoints of different plans was restored
C19_Witness ==
    /\ IsCall(ret, "restoreCheckpoint") /\ ret.success /\ ret.cp = 1
    /\ Len(checkpoints) = 2
    /\ orig[2] # ErrorState /\ ~SameTree(orig[1], orig[2])

\* C20: after a successful restoreCheckpoint of a checkpoint, addTask and
\* updateTask on the restored plan leave the stored state of the checkpoint
\* what it was when it was created, and a restore of the same checkpoint,
\* made at any later point, yields the plan the first restore yielded.
C20_RestoreRepeatable ==
    /\ \A i \in DOMAIN checkpoints : SameTree(checkpoints[i].state, orig[i])
    /\ since.cp # 0 =>
          /\ since.cp \in DOMAIN checkpoints
          /\ restoreCheckpoint(Manager, Store, checkpoints[since.cp].id,
                               UndefText).st = since.first
          /\ (IsCall(ret, "restoreCheckpoint") /\ ret.success) =>
                ret.cp = since.cp /\ Store = since.first

\* a checkpoint was restored, the restored plan was changed by addTask or
\* updateTask, and the checkpoint was restored again
C20_Witness ==
    /\ IsCall(ret, "restoreCheckpoint") /\ ret.success
    /\ since.again /\ since.changed
    /\ ret.cp = since.cp

\* the ids of the nodes of an exported tree, parents before children and
\* siblings in list order
RECURSIVE TreeIdSeq(_)
RECURSIVE TreeIdSeqFrom(_, _)
TreeIdSeq(node) == <<node.id>> \o TreeIdSeqFrom(node.subtasks, 1)

TreeIdSeqFrom(nodes, i) ==
    IF i > Len(nodes) THEN <<>>
    ELSE TreeIdSeq(nodes[i]) \o TreeIdSeqFrom(nodes, i + 1)

\* every node of an exported tree shows the fields its task holds now and
\* nests the task's subtasks in list order
RECURSIVE NodeCurrent(_)
NodeCurrent(node) ==
    /\ node.id \in DOMAIN tasks
    /\ \A k \in {"id", "description", "status", "notes", "result"} :
          node[k] = tasks[node.id][k]
    /\ [i \in DOMAIN node.subtasks |-> node.subtasks[i].id] = tasks[node.id].subtasks
    /\ \A i \in DOMAIN node.subtasks : NodeCurrent(node.subtasks[i])

\* C21: getPlanState returns the error object exactly when there is no root;
\* otherwise it returns a tree whose top node is the root task and in which
\* every task of the map occurs exactly once, with its current id,
\* description, status, notes and result and its children nested in the
\* order of its subtasks list (a walk that does not return is left to C30).
C21_PlanStateTree ==
    LET r == getPlanState(Store)
    IN /\ Falsy(rootTaskId) => (r.err = ErrNone /\ r.val = ErrorState)
       /\ (~Falsy(rootTaskId) /\ r.err = ErrNone) =>
            /\ r.val # ErrorState
            /\ r.val.id = rootTaskId
            /\ \A t \in DOMAIN tasks : Count(TreeIdSeq(r.val), t) = 1
            /\ NodeCurrent(r.val)

\* ---- reading the text formatPlan returns
RECURSIVE LeadingSpaces(_)
LeadingSpaces(s) ==
    IF Len(s) > 0 /\ SubSeq(s, 1, 1) = " "
    THEN 1 + LeadingSpaces(SubSeq(s, 2, Len(s)))
    ELSE 0

Trimmed(s) == SubSeq(s, LeadingSpaces(s) + 1, Len(s))

StartsWith(s, p) == Len(s) >= Len(p) /\ SubSeq(s, 1, Len(p)) = p

Icons == {"check", "cycle", "cross", "skip", "circle"}

IsTaskLine(s) == \E icon \in Icons : StartsWith(Trimmed(s), icon \o " [")
IsResultLine(s) == StartsWith(Trimmed(s), "Result: ")
IsNotesLine(s) == StartsWith(Trimmed(s), "Notes: ")

\* the tasks met walking down the subtasks lists from taskId, parents before
\* children and siblings in list order, each with its depth
RECURSIVE PreOrder(_, _, _)
RECURSIVE PreOrderFrom(_, _, _, _)
PreOrder(m, taskId, depth) ==
    <<[id |-> taskId, depth |-> depth]>> \o PreOrderFrom(m, m[taskId].subtasks, 1, depth + 1)

PreOrderFrom(m, subs, i, depth) ==
    IF i > Len(subs) THEN <<>>
    ELSE PreOrder(m, subs[i], depth) \o PreOrderFrom(m, subs, i + 1, depth)

\* C22: formatPlan returns "No active plan." when no plan is active;
\* otherwise its text holds exactly one task line per task of the map, in
\* depth-first pre-order from the root with siblings in subtasks order, and
\* the task line of a task at depth d is indented by exactly 2*d spaces and
\* shows the task's id and current status (a walk that does not return is
\* left to C30).
C22_FormatPlanLines ==
    LET r == formatPlan(Store)
    IN /\ Falsy(rootTaskId) => (r.err = ErrNone /\ r.val = <<"No active plan.">>)
       /\ (~Falsy(rootTaskId) /\ r.err = ErrNone) =>
            LET lines == SelectSeq(r.val, IsTaskLine)
                order == PreOrder(tasks, rootTaskId, 0)
            IN /\ Len(lines) = MapSize(tasks)
               /\ \A t \in DOMAIN tasks :
                     Cardinality({i \in DOMAIN lines :
                                     StrIncludes(lines[i], "[" \o t \o "]")}) = 1
               /\ Len(lines) = Len(order)
               /\ \A i \in DOMAIN lines :
                     LET task == tasks[order[i].id]
                     IN /\ LeadingSpaces(lines[i]) = 2 * order[i].depth
                        /\ StrIncludes(lines[i], "[" \o task.id \o "]")
                        /\ StrIncludes(lines[i], "(" \o task.status \o ")")

\* positions of the task lines in a text
TaskLineAt(out) == SelectSeq([i \in DOMAIN out |-> i], LAMBDA i : IsTaskLine(out[i]))

\* the pieces of the text between the i-th task line and the next task line
DetailLines(out, i) ==
    LET at == TaskLineAt(out)
    IN SubSeq(out, at[i] + 1, IF i < Len(at) THEN at[i + 1] - 1 ELSE Len(out))

\* C23 as stated: in the text of formatPlan, the line of a task at depth d is
\* followed, before the next task line, by a Result: line exactly when the
\* task's result is non-empty and a Notes: line exactly when its notes are
\* non-empty, and nothing else, each indented by 2*(d+1) spaces.
C23_DetailOneLevel ==
    LET r == formatPlan(Store)
    IN (~Falsy(rootTaskId) /\ r.err = ErrNone) =>
         LET order == PreOrder(tasks, rootTaskId, 0)
         IN \A i \in DOMAIN order :
              LET task == tasks[order[i].id]
                  detail == DetailLines(r.val, i)
                  results == SelectSeq(detail, IsResultLine)
                  notes == SelectSeq(detail, IsNotesLine)
              IN /\ Len(results) = (IF Falsy(task.result) THEN 0 ELSE 1)
                 /\ Len(notes) = (IF Falsy(task.notes) THEN 0 ELSE 1)
                 /\ Len(detail) = Len(results) + Len(notes)
                 /\ \A k \in DOMAIN detail :
                       LeadingSpaces(detail[k]) = 2 * (order[i].depth + 1)

\* C23 amended: the line of a task at depth d is followed, before the next
\* task line, by a Result: line holding the result exactly when the result is
\* non-empty and then by a Notes: line holding the notes exactly when the
\* notes are non-empty, and nothing else, each indented by 2*d + 4 spaces.
C23_DetailFourSpaces ==
    LET r == formatPlan(Store)
    IN (~Falsy(rootTaskId) /\ r.err = ErrNone) =>
         LET order == PreOrder(tasks, rootTaskId, 0)
         IN \A i \in DOMAIN order :
              LET task == tasks[order[i].id]
                  detail == DetailLines(r.val, i)
                  indent == repeat(" ", 2 * order[i].depth + 4)
              IN detail =
                   (IF Falsy(task.result) THEN <<>>
                    ELSE <<indent \o "Result: " \o task.result \o "\n">>)
                   \o (IF Falsy(task.notes) THEN <<>>
                       ELSE <<indent \o "Notes: " \o task.notes \o "\n">>)

\* a task below the root holds a result and notes given in two calls
C23_Witness ==
    \E t \in DOMAIN tasks :
       /\ tasks[t].parentId # Undefined
       /\ tasks[t].result = "r"
       /\ tasks[t].notes = "a\nb"
       /\ formatPlan(Store).err = ErrNone
       /\ Len(DetailLines(formatPlan(Store).val, 2)) = 2

\* the number of nodes of a snapshot
NodeCount(node) == Len(TreeIdSeq(node))

\* every node of a snapshot has as children in the map its nested entries, in order
RECURSIVE NodesNested(_)
NodesNested(node) ==
    /\ node.id \in DOMAIN tasks
    /\ tasks[node.id].subtasks = [i \in DOMAIN node.subtasks |-> node.subtasks[i].id]
    /\ \A i \in DOMAIN node.subtasks : NodesNested(node.subtasks[i])

\* C24: restoreState fails with the invalid-state error when the state is
\* null or carries an error field; for every other state it succeeds, and
\* afterwards a plan is active whose root is the snapshot's top node, the map
\* holds exactly the ids present in the snapshot, each node's children are
\* the snapshot's nested entries in order, and the count it reports is the
\* number of nodes in the snapshot.
C24_RestoreStateRebuilds ==
    IsCall(ret, "restoreState") =>
       LET state == ret.args.state
       IN IF state = NullV \/ "error" \in DOMAIN state
          THEN ret.err = ErrInvalidState
          ELSE /\ ret.err = ErrNone
               /\ rootTaskId = state.id
               /\ DOMAIN tasks = TreeIds(state)
               /\ NodesNested(state)
               /\ ret.message = <<"State restored successfully. Plan has ",
                                  toString(NodeCount(state)), " task(s).">>

IsSuffix(p, s) == Len(p) <= Len(s) /\ SubSeq(s, Len(s) - Len(p) + 1, Len(s)) = p

\* a task_orchestrator request that lacks the parameter its action requires
\* or that makes the store throw in the current state
ToolFails(args) ==
    \/ /\ args.action = "create_plan"
       /\ Falsy(Get(args, "plan_goal"))
    \/ /\ args.action = "add_task"
       /\ \/ Falsy(Get(args, "task_description"))
          \/ Falsy(rootTaskId)
          \/ /\ ~Falsy(Get(args, "parent_task_id"))
             /\ Get(args, "parent_task_id") \notin DOMAIN tasks
    \/ /\ args.action = "update_task"
       /\ \/ Falsy(Get(args, "task_id"))
          \/ Get(args, "task_id") \notin DOMAIN tasks

\* C25: for the task_orchestrator tool, get_plan never changes the plan;
\* every successful create_plan, add_task or update_task response ends with
\* the formatPlan text of the plan as it is after the modification; every
\* failing action (required parameter missing or empty, or an error thrown
\* by the store) returns an isError response and leaves the plan unchanged.
C25_ToolResponses ==
    [][(Called /\ IsCall(ret', "task_orchestrator")
        /\ ret'.args.arguments.action \in ToolActions)
       => LET args == ret'.args.arguments
              planAfter == formatPlan(StoreAfter).val
          IN /\ args.action = "get_plan" =>
                   /\ tasks' = tasks /\ rootTaskId' = rootTaskId
                   /\ ret'.success
                   /\ ret'.message = planAfter
             /\ (args.action # "get_plan" /\ ~ToolFails(args)) =>
                   /\ ret'.success
                   /\ IsSuffix(<<"\n\n">> \o planAfter, ret'.message)
             /\ ToolFails(args) =>
                   /\ ret'.err = ErrNone /\ ~ret'.success
                   /\ ret'.message[1] = "Error: "
                   /\ tasks' = tasks /\ rootTaskId' = rootTaskId]_vars

\* a third task was added under task 2 through the tool after a request
\* that failed for a missing task, and the response shows the three tasks
C25_Witness ==
    /\ IsCall(ret, "task_orchestrator")
    /\ ret.success
    /\ ret.args.arguments = ReqAddTaskUnder2
    /\ MapSize(tasks) = 3
    /\ steps = 4
    /\ Len(SelectSeq(ret.message, IsTaskLine)) = 3

\* C26: requests of several callers against the shared store are handled
\* one at a time, each to completion: whatever the order in which pending
\* requests are handled, no two add_task requests since the last create_plan
\* receive the same id, every successful add_task has added one task, a
\* successful response shows the plan as its own request left it, every
\* task is stored under its own id and the task graph is a rooted tree.
C26_RequestsAtomic ==
    /\ \A i, j \in DOMAIN issued : i # j => issued[i] # issued[j]
    /\ ~Falsy(rootTaskId) => MapSize(tasks) = 1 + Len(issued)
    /\ (IsCall(ret, "task_orchestrator") /\ ret.success) =>
          IsSuffix(formatPlan(Store).val, ret.message)
    /\ \A t \in DOMAIN tasks : tasks[t].id = t
    /\ C2_TreeShape

\* caller c1 has just been answered for the second add_task of the plan
\* while an add_task request of caller c2 is waiting to be handled
C26_Witness ==
    /\ IsCall(ret, "task_orchestrator")
    /\ ret.success
    /\ ret.args.caller = "c1"
    /\ ret.args.arguments.action = "add_task"
    /\ issued = <<"2", "3">>
    /\ inflight["c2"] = ReqAddTaskUnder2

\* the number an id is the decimal string of
IdNumber(id) == CHOOSE n \in 0..(MaxTasks + 10) : toString(n) = id

C28_TasksNeverRemoved ==
    [][(/\ Called
        /\ ret'.op \notin {"createPlan", "restoreState"}
        /\ ~(IsCall(ret', "restoreCheckpoint") /\ ret'.success))
       => /\ DOMAIN tasks \subseteq DOMAIN tasks'
          /\ rootTaskId' = rootTaskId
          /\ \A t \in DOMAIN tasks :
                /\ tasks'[t].parentId = tasks[t].parentId
                /\ IsPrefix(tasks[t].subtasks, tasks'[t].subtasks)]_vars

\* C29: in every state reached through createPlan, addTask, updateTask,
\* createCheckpoint and restoreCheckpoint the ids of the map are exactly the
\* decimal strings of 1..n for n tasks and the root of an active plan is
\* "1", so the id the next addTask would return is not in the map.
C29_IdsDense ==
    LET n == MapSize(tasks)
    IN /\ DOMAIN tasks = {toString(i) : i \in 1..n}
       /\ ~Falsy(rootTaskId) => (rootTaskId = "1" /\ n >= 1)
       /\ ~Falsy(rootTaskId) =>
             \A parentId \in {Undefined} \cup DOMAIN tasks :
                LET r == addTask(Store, "d", parentId, Undefined)
                IN r.err = ErrNone /\ r.id \notin DOMAIN tasks

\* a checkpoint holding two tasks, taken under an earlier plan, has just
\* been restored over a later plan
C29_Witness ==
    /\ IsCall(ret, "restoreCheckpoint")
    /\ ret.success
    /\ issued = <<>>
    /\ MapSize(tasks) = 2

\* C30: in every state reached through the operations of the store,
\* restoreState of any accepted snapshot among them, getPlanState and
\* formatPlan return: their walk from the root never comes back to a task it
\* is already below.
C30_WalksTerminate ==
    /\ getPlanState(Store).err = ErrNone
    /\ formatPlan(Store).err = ErrNone

\* the checkpoints that score above 0.3 for a query and that none outscores
BestFor(query) ==
    {i \in DOMAIN checkpoints :
        /\ Greater(ScoreOf(query, i), Threshold03)
        /\ \A j \in DOMAIN checkpoints : ~Greater(ScoreOf(query, j), ScoreOf(query, i))}

\* C31: the checkpoint restoreCheckpoint selects by description is a
\* function of the checkpoint list and the query alone: among the
\* checkpoints with the highest score (above 0.3) it is the one created
\* earliest, and none is selected when no score exceeds 0.3.
C31_EarliestOfBest ==
    [][(/\ Called
        /\ IsCall(ret', "restoreCheckpoint")
        /\ Falsy(ret'.args.checkpointId)
        /\ ~TextFalsy(ret'.args.description))
       => LET best == BestFor(ret'.args.description)
          IN ret'.cp = IF best = {} THEN 0
                       ELSE CHOOSE i \in best : \A j \in best : i <= j]_vars

\* two checkpoints of the same name tie for the highest score and the first
\* one was restored
C31_Witness ==
    /\ IsCall(ret, "restoreCheckpoint") /\ ret.success
    /\ Falsy(ret.args.checkpointId)
    /\ Len(checkpoints) = 2 /\ ret.cp = 1
    /\ BestFor(ret.args.description) = {1, 2}

\* C32: in every state reached through createCheckpoint, restoreCheckpoint
\* and clear, the checkpoint at position i of the list has id cp_i and the
\* counter is the length of the list plus 1; so no two listed checkpoints
\* share an id and a lookup by exact id finds at most one checkpoint, the one
\* getCheckpoint returns.
C32_IdsByPosition ==
    /\ \A i \in DOMAIN checkpoints : checkpoints[i].id = "cp_" \o toString(i)
    /\ nextId = Len(checkpoints) + 1
    /\ \A i, j \in DOMAIN checkpoints :
          checkpoints[i].id = checkpoints[j].id => i = j
    /\ \A id \in CheckpointIds \ {Undefined} :
          LET hits == {i \in DOMAIN checkpoints : checkpoints[i].id = id}
          IN /\ Cardinality(hits) <= 1
             /\ hits = {} => getCheckpoint(Manager, id) = NullV
             /\ \A i \in hits : getCheckpoint(Manager, id) = checkpoints[i]

ReadOps == {"getPlanState", "formatPlan", "listCheckpoints", "getCheckpoint",
            "analyzeProgress"}

\* C33: getPlanState, formatPlan, listCheckpoints, getCheckpoint and
\* analyzeProgress leave the task map, the root id, the checkpoint list and
\* the counter as they were, whether they return or throw; createCheckpoint
\* leaves the task map and the root id as they were and changes the
\* checkpoint list and the counter only: a call that returns adds one
\* checkpoint at the end of the list, a call that throws adds none.
C33_ReadsChangeNothing ==
    [][/\ (Called /\ ret'.op \in ReadOps)
            => (StoreAfter = Store /\ ManagerAfter = Manager)
       /\ (Called /\ IsCall(ret', "createCheckpoint"))
            => /\ StoreAfter = Store
               /\ nextId' = nextId + 1
               /\ IF ret'.err # ErrNone THEN checkpoints' = checkpoints
                  ELSE /\ Len(checkpoints') = Len(checkpoints) + 1
                       /\ SubSeq(checkpoints', 1, Len(checkpoints)) = checkpoints]_vars

\* a plan of three tasks with a checkpoint taken was analysed
C33_Witness ==
    /\ IsCall(ret, "analyzeProgress")
    /\ ret.err = ErrNone
    /\ "summary" \in DOMAIN ret.val
    /\ ret.val # NoPlanAnalysis
    /\ ret.val.summary.stats.total = 3
    /\ Len(checkpoints) = 1

\* C34: a successful updateTask(id, updates) changes nothing but the status,
\* description, notes and result of task id: a given non-empty status,
\* description or result becomes the field's value in place of the old one;
\* the task's id, parentId and subtasks, every other task, the set of tasks,
\* the root id, the checkpoint list and the counter are as before.
C34_UpdateTouchesFourFields ==
    [][(Called /\ IsCall(ret', "updateTask") /\ ~Failed(ret'))
       => LET id == ret'.args.id
              updates == ret'.args.updates
          IN /\ DOMAIN tasks' = DOMAIN tasks
             /\ \A t \in DOMAIN tasks : t # id => tasks'[t] = tasks[t]
             /\ \A f \in DOMAIN tasks[id] \ UpdateFields :
                   tasks'[id][f] = tasks[id][f]
             /\ DOMAIN tasks'[id] = DOMAIN tasks[id]
             /\ \A f \in {"status", "description", "result"} :
                   ~Falsy(Get(updates, f)) => tasks'[id][f] = Get(updates, f)
             /\ rootTaskId' = rootTaskId
             /\ ManagerAfter = Manager]_vars

\* the root, which held result "r" when the checkpoint was taken and has a
\* subtask, was given result "r" again
C34_Witness ==
    /\ IsCall(ret, "updateTask") /\ ~Failed(ret)
    /\ ret.args.id = "1"
    /\ ret.args.updates = UpdateDone
    /\ Len(checkpoints) = 1
    /\ "result" \in DOMAIN checkpoints[1].state
    /\ checkpoints[1].state.result = "r"
    /\ tasks["1"].result = "r"
    /\ tasks["1"].subtasks # <<>>

\* relevance of the stored item at position i for a query
RelevanceOf(query, i) == semanticSimilarity(query, itemText(context.memory[i]))

\* what recall may return for a query and a bound on the number of results:
\* at most that many results, in non-increasing order of relevance, each a
\* stored item with its relevance, above 0.1, and every stored item that
\* scores higher than a returned one returned as well
RecallWithin(results, query, atMost) ==
    /\ Len(results) <= atMost
    /\ \A k \in 1..(Len(results) - 1) :
          ~Greater(results[k + 1].relevance, results[k].relevance)
    /\ \A k \in DOMAIN results :
          /\ Greater(results[k].relevance, Threshold01)
          /\ \E i \in DOMAIN context.memory :
                /\ results[k].what = context.memory[i].what
                /\ results[k].details = context.memory[i].details
                /\ results[k].relevance = RelevanceOf(query, i)
          /\ Cardinality({i \in DOMAIN context.memory :
                 Greater(RelevanceOf(query, i), results[k].relevance)})
               = Cardinality({j \in DOMAIN results :
                 Greater(results[j].relevance, results[k].relevance)})

\* C37: remember always succeeds, appends one item to the memory and returns
\* the ids mem_1, mem_2, ..., so that the ids of the stored items are pairwise
\* distinct; recall(query, limit) leaves the memory as it was and returns at
\* most limit results (none for a limit below 1), in non-increasing order of
\* relevance, each a stored item with relevance above 0.1, none of the items
\* left out scoring higher than a returned one.
C37_RememberRecall ==
    [][/\ (Called /\ IsCall(ret', "remember"))
            => /\ ret'.success
               /\ ret'.id = "mem_" \o toString(Len(context.memory) + 1)
               /\ Len(context'.memory) = Len(context.memory) + 1
               /\ SubSeq(context'.memory, 1, Len(context.memory)) = context.memory
               /\ context'.memory[Len(context'.memory)] =
                     [id |-> ret'.id, what |-> ret'.args.what,
                      details |-> ret'.args.details]
               /\ \A i, j \in DOMAIN context'.memory :
                     context'.memory[i].id = context'.memory[j].id => i = j
       /\ (Called /\ IsCall(ret', "recall"))
            => /\ context' = context
               /\ RecallWithin(ret'.val, ret'.args.query,
                               Max(ret'.args.limit, 0))]_vars

\* C35 and C36 read the resolver's Maps as sets
KnownTasks(rs) == {rs.tasks[i].id : i \in DOMAIN rs.tasks}
RecordedDeps(rs, id) ==
    UNION {rs.dependencies[i].deps :
              i \in {j \in DOMAIN rs.dependencies : rs.dependencies[j].id = id}}
NoRepeat(s) == \A i, j \in DOMAIN s : s[i] = s[j] => i = j

\* C35: getNextTasks(completed) returns in ready exactly the known tasks
\* that are not in completed and whose recorded dependencies are all in
\* completed, and in blocked exactly the known tasks with a recorded
\* dependency that is not in completed; ready and blocked share no task and
\* neither lists a task twice.
C35_NextTasksPartition ==
    [][(Called /\ IsCall(ret', "getNextTasks"))
       => LET completed == Range(ret'.args.completedTasks)
              ready == ret'.val.ready
              blocked == ret'.val.blocked
          IN /\ Range(ready) =
                   {t \in KnownTasks(resolver) :
                       t \notin completed /\ RecordedDeps(resolver, t) \subseteq completed}
             /\ Range(blocked) =
                   {t \in KnownTasks(resolver) :
                       ~(RecordedDeps(resolver, t) \subseteq completed)}
             /\ Range(ready) \cap Range(blocked) = {}
             /\ NoRepeat(ready) /\ NoRepeat(blocked)]_vars

\* C36: after any history of inferDependencies calls, every task the last
\* call reported in ready_tasks is listed as ready, and not as blocked, by a
\* getNextTasks([]) that follows it at once, and every task it reported with
\* dependencies is listed as blocked.
C36_RecordAgreesWithInference ==
    [][(Called /\ IsCall(ret', "inferDependencies"))
       => LET next == getNextTasks(resolver', <<>>)
          IN /\ \A t \in Range(ret'.val.ready_tasks) :
                   t \in Range(next.ready) /\ t \notin Range(next.blocked)
             /\ \A d \in DOMAIN ret'.val.dependencies :
                   ret'.val.dependencies[d].task_id \in Range(next.blocked)]_vars
====
